---- MODULE Spec2Model ----
(***************************************************************************)
(* The activity record store of logic.py: save_to_csv (the Writer) appends *)
(* batches of records to a CSV file, load_data (the Reader/Cleaner) parses *)
(* the whole file again on every call and cleans it; the analysis          *)
(* functions (get_totals, get_today_activities, get_date_range_activities, *)
(* get_activity_timeline, get_data_summary) compute views of a table a     *)
(* caller passes; format_activity_summary renders a list of entries;       *)
(* log_activity validates, asks the AI service and saves; add_task,        *)
(* load_tasks, update_task_status and delete_task keep the task file.      *)
(*                                                                         *)
(* A file is a sequence of lines, a line a sequence of cell texts.  Values *)
(* in memory (instants, quantities, dates, missing values) are not cell    *)
(* texts: to_csv formats them and read_csv, to_datetime and to_numeric     *)
(* parse them back, each modelled by what pandas does to one cell.         *)
(* Not modelled: quoting (no cell holds a comma, a quote or a line break), *)
(* blank lines, duplicate header names, and the column-wide inference of   *)
(* pandas (a timestamp cell parses or not on its own, whatever the other   *)
(* cells of its column look like).                                         *)
(*                                                                         *)
(* Concurrent calls are interleaved at the points where the code reads or  *)
(* writes the file.  A write of to_csv in append mode lands whole; a text  *)
(* longer than the buffer of the file object takes more than one write     *)
(* (WriteBuffer stands for the 8192 bytes of that buffer, counted in cells *)
(* and scaled down).  The rewrite of the task file is one step: the window *)
(* between truncating and writing it is not modelled.  The entries passed  *)
(* to format_activity_summary all have 'activity' and 'quantity', and      *)
(* units without surrounding blanks.  An I/O failure inside log_activity   *)
(* is not modelled.                                                        *)
(***************************************************************************)
EXTENDS Integers, Sequences, FiniteSets, TLC

VARIABLES
    store,    \* the file CSV_FILENAME: [exists, lines, eol]
    table,    \* the data frame a caller holds and passes to the analysis functions
    now,      \* the clock datetime.now() reads, an instant
    ret,      \* what the last call returned or raised
    logged,   \* history: the records of the successful appends, in order
    saves,    \* history: the number of successful appends
    origin,   \* history: the store (of the task runs: the task file) before the first call
    held,     \* the list of record objects a caller holds
    calls,    \* the calls in progress, one per thread
    tasks     \* the file TASKS_CSV_FILENAME

vars == <<store, table, now, ret, logged, saves, origin, held, calls, tasks>>

----------------------------------------------------------------------------
(* Bounds of the model *)

MaxNow == 2         \* the clock runs over the instants 1..MaxNow
MaxBatch == 2       \* records in one batch
MaxStoreRows == 2   \* data rows in the store
MaxTableRows == 2   \* rows of a table passed to an analysis function
MaxThreads == 2     \* threads calling save_to_csv at the same time
MaxResaves == 2     \* save_to_csv calls a caller makes with the same list

----------------------------------------------------------------------------
(* Values *)

\* In-memory missing values.  They are never the text of a cell.
NONE == "<None>"        \* Python's None
NAN == "<float nan>"    \* the NaN pandas holds for a missing cell
PD_NA == "<pd.NA>"      \* pd.NA
NaT == 0                \* the missing instant (instants are 1, 2, ...)
NaN == -1               \* the missing quantity (quantities are 1, 2, ...)

\* Instant i, as datetime.isoformat() writes it.
TsText == << "2024-01-01T10:00:00", "2024-01-01T23:00:00", "2024-01-02T01:00:00",
             "2024-01-02T14:00:00", "2024-01-03T08:00:00", "2024-01-08T09:00:00",
             "2024-01-29T12:00:00", "2024-02-01T07:30:00" >>

\* The calendar date (.dt.date) of instant i, and the text of date d.
DayOf == << 1, 1, 2, 2, 3, 4, 5, 6 >>
DateText == << "2024-01-01", "2024-01-02", "2024-01-03", "2024-01-08", "2024-01-29",
               "2024-02-01" >>

\* The week (.dt.to_period('W'), Monday to Sunday; 2024-01-01 is a Monday)
\* and the month (.dt.to_period('M')) of date d, numbered from January 2024.
WeekOf == << 1, 1, 1, 2, 5, 5 >>
MonthOf == << 1, 1, 1, 1, 1, 2 >>

\* Quantity n, as to_csv writes it.
Numerals == << "1", "2", "3" >>

\* Cell texts read_csv reads as missing (some of pandas' default na_values).
NaValues == {"", "NA", "N/A", "nan", "NaN", "null", "<NA>"}

full_schema_columns == <<"timestamp", "activity", "quantity", "unit", "date">>

Range(s) == {s[i] : i \in 1..Len(s)}

Absent == [exists |-> FALSE, lines |-> <<>>, eol |-> TRUE]
File(ls, nl) == [exists |-> TRUE, lines |-> ls, eol |-> nl]

----------------------------------------------------------------------------
(* pandas: parsing one cell *)

\* pd.to_datetime(..., errors='coerce') on one value
to_datetime(v) ==
    IF \E i \in 1..Len(TsText) : TsText[i] = v
    THEN CHOOSE i \in 1..Len(TsText) : TsText[i] = v
    ELSE NaT

\* pd.to_numeric(..., errors='coerce') on one value
to_numeric(v) ==
    IF \E n \in 1..Len(Numerals) : Numerals[n] = v
    THEN CHOOSE n \in 1..Len(Numerals) : Numerals[n] = v
    ELSE NaN

\* .astype(str) on one value of a text column
astype_str(v) ==
    IF v = NAN THEN "nan" ELSE IF v = PD_NA THEN "<NA>" ELSE IF v = NONE THEN "None" ELSE v

\* .replace("nan", "") on one value
replace_nan(v) == IF v = "nan" THEN "" ELSE v

----------------------------------------------------------------------------
(* save_to_csv *)

\* A slip: every record is stamped, a supplied timestamp is overwritten.
stamp_every_record(r, t) ==
    [k \in DOMAIN r \cup {"timestamp"} |-> IF k = "timestamp" THEN TsText[t] ELSE r[k]]

\* A slip: only a record without the key is stamped, None is left in place.
stamp_missing_key_only(r, t) ==
    IF "timestamp" \notin DOMAIN r
    THEN [k \in DOMAIN r \cup {"timestamp"} |-> IF k = "timestamp" THEN TsText[t] ELSE r[k]]
    ELSE r

\* Lines 372-374: a record without a timestamp, or with None, gets the instant
\* t that datetime.now() returns when the loop reaches it.
stamp(r, t) ==
    IF "timestamp" \notin DOMAIN r \/ r["timestamp"] = NONE
    THEN [k \in DOMAIN r \cup {"timestamp"} |-> IF k = "timestamp" THEN TsText[t] ELSE r[k]]
    ELSE r

\* pd.DataFrame(activities): the columns are the keys of the records, and a
\* record without a key holds NaN there.
frame_columns(recs) == UNION {DOMAIN recs[i] : i \in 1..Len(recs)}
frame_cell(r, col) == IF col \in DOMAIN r THEN r[col] ELSE NAN

\* Lines 385-390: the date column derived from the timestamps; one timestamp
\* that does not parse raises, and the column is NaT throughout.
derived_date(recs, r) ==
    IF \A i \in 1..Len(recs) : to_datetime(frame_cell(recs[i], "timestamp")) # NaT
    THEN DayOf[to_datetime(frame_cell(r, "timestamp"))]
    ELSE NaT

\* Lines 383-395: one row of new_data_df[full_schema_columns].
schema_row(recs, r) ==
    LET cols == frame_columns(recs)
        val(col) == IF col \in cols THEN frame_cell(r, col) ELSE NONE
    IN << val("timestamp"), val("activity"), val("quantity"), val("unit"),
          IF "date" \in cols THEN frame_cell(r, "date")
          ELSE IF "timestamp" \in cols THEN derived_date(recs, r) ELSE NONE >>

\* to_csv: the text of one value (a missing value is written as nothing).
text_of(v) == IF v \in {NONE, NAN, PD_NA} THEN "" ELSE v
number_text(n) == IF n \in 1..Len(Numerals) THEN Numerals[n] ELSE ""
date_text(d) == IF d \in 1..Len(DateText) THEN DateText[d] ELSE ""

csv_line(row) ==
    << text_of(row[1]), text_of(row[2]), number_text(row[3]), text_of(row[4]),
       date_text(row[5]) >>

\* A slip: the header is written only when the file does not exist.
needs_header_if_absent(f) == ~f.exists

\* Line 400
needs_header(f) == ~f.exists \/ Len(f.lines) = 0

\* A slip: the file is opened in mode 'w'.
overwrite_lines(f, ls) == File(ls, TRUE)

\* Opening in mode 'a' and writing `ls`: the text goes after the last byte, so
\* it continues the last line of a file that does not end in a line break.
append_lines(f, ls) ==
    IF ls = <<>> THEN File(f.lines, f.eol)
    ELSE IF f.exists /\ Len(f.lines) > 0 /\ ~f.eol
    THEN LET last == f.lines[Len(f.lines)]
             first == ls[1]
             joined == SubSeq(last, 1, Len(last) - 1)
                       \o << last[Len(last)] \o first[1] >> \o Tail(first)
         IN File(SubSeq(f.lines, 1, Len(f.lines) - 1) \o <<joined>> \o Tail(ls), TRUE)
    ELSE File(f.lines \o ls, TRUE)

\* Lines 397-406: to_csv(CSV_FILENAME, mode='a', header=needs_header)
to_csv(f, rows) ==
    append_lines(f, (IF needs_header(f) THEN <<full_schema_columns>> ELSE <<>>)
                    \o [i \in 1..Len(rows) |-> csv_line(rows[i])])

\* The file after save_to_csv(activities), where reads[i] is the instant the
\* clock shows when the loop of line 372 reaches record i.
save_to_csv(f, activities, reads) ==
    LET recs == [i \in 1..Len(activities) |-> stamp(activities[i], reads[i])]
    IN to_csv(f, [i \in 1..Len(recs) |-> schema_row(recs, recs[i])])

----------------------------------------------------------------------------
(* pandas: read_csv *)

Max(a, b) == IF a >= b THEN a ELSE b
Min(a, b) == IF a <= b THEN a ELSE b

\* A cell as read_csv holds it: the texts of na_values are missing values.
na_filter(v) == IF v \in NaValues THEN NAN ELSE v

\* One line under `width` fields of which the first `lead` are the index: a
\* short line is filled with missing values, the index fields are not columns.
parsed_row(line, width, lead) ==
    [j \in 1..(width - lead) |->
        IF lead + j <= Len(line) THEN na_filter(line[lead + j]) ELSE NAN]

NoFrame == [columns |-> <<>>, rows |-> <<>>]

\* pd.read_csv(CSV_FILENAME), the C parser.  The first line names the columns.
\* The first data line may hold more fields than the header: its extra leading
\* fields become the index.  Every later line may hold at most as many fields
\* as the line before it (after filling): more is "Expected n fields in line
\* k, saw m".  A file without a line is EmptyDataError.
read_csv(lines) ==
    IF Len(lines) = 0 THEN [error |-> "EmptyDataError", df |-> NoFrame]
    ELSE LET header == lines[1]
             data == Tail(lines)
             width == IF data = <<>> THEN Len(header)
                      ELSE Max(Len(header), Len(data[1]))
         IN IF \E i \in 2..Len(data) : Len(data[i]) > width
            THEN [error |-> "ParserError: Expected fields, saw", df |-> NoFrame]
            ELSE [error |-> "",
                  df |-> [columns |-> header,
                          rows |-> [i \in 1..Len(data) |->
                                     parsed_row(data[i], width, width - Len(header))]]]

\* A slip: the first line still names the columns it has (the frame's columns
\* are the file's own names, completed from `names`), though it is read as data.
read_csv_python_header_names(lines, names) ==
    LET width == IF lines = <<>> THEN Len(names) ELSE Max(Len(names), Len(lines[1]))
        own(j) == IF lines # <<>> /\ j <= Len(lines[1]) THEN lines[1][j] ELSE names[j]
    IN IF \E i \in 1..Len(lines) : Len(lines[i]) > width
       THEN [error |-> "ParserError: Expected fields, saw", df |-> NoFrame]
       ELSE [error |-> "",
             df |-> [columns |-> [j \in 1..Len(names) |-> own(j)],
                     rows |-> [i \in 1..Len(lines) |->
                                parsed_row(lines[i], width, width - Len(names))]]]

\* pd.read_csv(CSV_FILENAME, engine='python', header=None, names=...): every
\* line is data, the first one too; a line with more fields than names (and
\* than the first line) is an error.
read_csv_python(lines, names) ==
    LET width == IF lines = <<>> THEN Len(names) ELSE Max(Len(names), Len(lines[1]))
    IN IF \E i \in 1..Len(lines) : Len(lines[i]) > width
       THEN [error |-> "ParserError: Expected fields, saw", df |-> NoFrame]
       ELSE [error |-> "",
             df |-> [columns |-> names,
                     rows |-> [i \in 1..Len(lines) |->
                                parsed_row(lines[i], width, width - Len(names))]]]

----------------------------------------------------------------------------
(* load_data *)

\* Data frames: [columns, rows], each row aligned with the columns.
has_column(df, c) == c \in Range(df.columns)
column_index(df, c) == CHOOSE j \in 1..Len(df.columns) : df.columns[j] = c
cell(df, row, c) == row[column_index(df, c)]

\* Lines 479-487
column_map_norwegian_to_english ==
    [tidspunkt |-> "timestamp", aktivitet |-> "activity", mengde |-> "quantity",
     enhet |-> "unit"]

\* A slip: 'mengde' is left out of the map.
cols_to_rename_without_mengde(df) ==
    {k \in DOMAIN column_map_norwegian_to_english \ {"mengde"} :
        has_column(df, k) /\ ~has_column(df, column_map_norwegian_to_english[k])}

cols_to_rename(df) ==
    {k \in DOMAIN column_map_norwegian_to_english :
        has_column(df, k) /\ ~has_column(df, column_map_norwegian_to_english[k])}

\* A slip: a legacy column is renamed whether or not its canonical name is
\* already a column.
rename_columns_unchecked(df) ==
    [df EXCEPT !.columns = [j \in 1..Len(df.columns) |->
        IF df.columns[j] \in DOMAIN column_map_norwegian_to_english
        THEN column_map_norwegian_to_english[df.columns[j]]
        ELSE df.columns[j]]]

rename_columns(df) ==
    [df EXCEPT !.columns = [j \in 1..Len(df.columns) |->
        IF df.columns[j] \in cols_to_rename(df)
        THEN column_map_norwegian_to_english[df.columns[j]]
        ELSE df.columns[j]]]

\* Lines 489-493
final_columns == <<"timestamp", "activity", "quantity", "unit", "date">>

add_column(df, c) ==
    IF has_column(df, c) THEN df
    ELSE [columns |-> Append(df.columns, c),
          rows |-> [i \in 1..Len(df.rows) |-> Append(df.rows[i], PD_NA)]]

ensure_columns(df) ==
    add_column(add_column(add_column(add_column(add_column(df,
        "timestamp"), "activity"), "quantity"), "unit"), "date")

\* Lines 495-498
coerce_types(df) ==
    LET text(v) == replace_nan(astype_str(v))
        coerced(row) == [j \in 1..Len(row) |->
            IF j = column_index(df, "timestamp") THEN to_datetime(row[j])
            ELSE IF j = column_index(df, "quantity") THEN to_numeric(row[j])
            ELSE IF j = column_index(df, "activity") THEN text(row[j])
            ELSE IF j = column_index(df, "unit") THEN text(row[j])
            ELSE row[j]]
    IN [df EXCEPT !.rows = [i \in 1..Len(df.rows) |-> coerced(df.rows[i])]]

\* A slip: dropna(subset=['timestamp'])
dropna_timestamp_only(df) ==
    LET keep(row) == cell(df, row, "timestamp") # NaT
    IN [df EXCEPT !.rows = SelectSeq(df.rows, keep)]

\* Line 500
dropna(df) ==
    LET keep(row) == cell(df, row, "timestamp") # NaT /\ cell(df, row, "quantity") # NaN
    IN [df EXCEPT !.rows = SelectSeq(df.rows, keep)]

\* A slip: a date found on disk is kept, only a missing one is derived.
derive_date_if_missing(df) ==
    [df EXCEPT !.rows = [i \in 1..Len(df.rows) |->
        [df.rows[i] EXCEPT ![column_index(df, "date")] =
            IF \E d \in 1..Len(DateText) : DateText[d] = @
            THEN CHOOSE d \in 1..Len(DateText) : DateText[d] = @
            ELSE DayOf[cell(df, df.rows[i], "timestamp")]]]]

\* Line 505
derive_date(df) ==
    [df EXCEPT !.rows = [i \in 1..Len(df.rows) |->
        [df.rows[i] EXCEPT ![column_index(df, "date")] =
            DayOf[cell(df, df.rows[i], "timestamp")]]]]

\* A slip: the frame is returned with all the columns it has.
select_all_columns(df, cols) == df

\* Line 507: df[final_columns]
select_columns(df, cols) ==
    [columns |-> cols,
     rows |-> [i \in 1..Len(df.rows) |->
                [j \in 1..Len(cols) |-> cell(df, df.rows[i], cols[j])]]]

\* What a call returns or raises.
\* `cause` holds the errors an exception was raised from, the original first.
Returned(k, cols, rows) == [kind |-> k, columns |-> cols, rows |-> rows, cause |-> <<>>]
ReturnsNone == Returned("ABSENT", <<>>, <<>>)
Raises == Returned("raise", <<>>, <<>>)
RaisesFrom(errors) == [Raises EXCEPT !.cause = errors]
ReturnsTrue == Returned("True", <<>>, <<>>)
\* A ValueError raised with that message.
ValueError(message) == RaisesFrom(<<message>>)
Table(df) == Returned("table", df.columns, df.rows)
empty_table == Returned("table", final_columns, <<>>)

\* Lines 475-507
clean(df) ==
    IF df.rows = <<>> \/ df.columns = <<>> THEN empty_table
    ELSE LET kept == dropna(coerce_types(ensure_columns(rename_columns(df))))
         IN IF kept.rows = <<>> THEN empty_table
            ELSE Table(select_columns(derive_date(kept), final_columns))

\* A slip: a file without a byte counts as no file.
load_data_none_if_empty(f) ==
    IF ~f.exists \/ Len(f.lines) = 0 THEN ReturnsNone
    ELSE LET strict == read_csv(f.lines)
         IN IF strict.error = "" THEN clean(strict.df)
            ELSE LET fallback == read_csv_python(f.lines, full_schema_columns)
                 IN IF fallback.error = "" THEN clean(fallback.df) ELSE Raises

\* A slip: a file that cannot be parsed is taken for a file without rows.
load_data_empty_on_error(f) ==
    IF ~f.exists THEN ReturnsNone
    ELSE LET strict == read_csv(f.lines)
         IN IF strict.error = "" THEN clean(strict.df)
            ELSE IF strict.error = "ParserError: Expected fields, saw"
            THEN LET fallback == read_csv_python(f.lines, full_schema_columns)
                 IN IF fallback.error = "" THEN clean(fallback.df) ELSE empty_table
            ELSE empty_table

\* Lines 453-507.  Line 469 raises from the strict parse's error and names the
\* fallback's, line 473 raises from the error of the read.
load_data(f) ==
    IF ~f.exists THEN ReturnsNone
    ELSE LET strict == read_csv(f.lines)
         IN IF strict.error = "" THEN clean(strict.df)
            ELSE IF strict.error = "ParserError: Expected fields, saw"
            THEN LET fallback == read_csv_python(f.lines, full_schema_columns)
                 IN IF fallback.error = "" THEN clean(fallback.df)
                    ELSE RaisesFrom(<<strict.error, fallback.error>>)
            ELSE RaisesFrom(<<strict.error>>)

\* A slip: the handler of line 408 reports the failure by returning False.
save_outcome_false_on_error(error) ==
    IF error = "" THEN ReturnsTrue ELSE Returned("False", <<>>, <<>>)

\* Lines 397-411: what save_to_csv returns or raises, `error` being what
\* to_csv raised ("" when it raised nothing).
save_outcome(error) ==
    IF error = "" THEN ReturnsTrue ELSE RaisesFrom(<<error>>)

\* The file after a to_csv that raised before a byte of the batch was written:
\* the open failed and the file is as it was, or the open succeeded, which
\* creates the file in mode 'a', and the write failed.
to_csv_failed(f, opened) ==
    IF opened /\ ~f.exists THEN File(<<>>, TRUE) ELSE f

----------------------------------------------------------------------------
(* log_activity *)

\* An API key, by what validate_api_key looks at: whether it is empty or
\* blank, how it begins, and its length.
ApiKey(blank, prefix, length) == [blank |-> blank, prefix |-> prefix, length |-> length]

\* Lines 920-932
validate_api_key(api_key) ==
    /\ ~api_key.blank
    /\ api_key.prefix \in {"sk-or-", "sk-"}
    /\ api_key.length >= 20

\* What the request of line 288 comes to: the call fails or the status is an
\* error, the body is no JSON or lacks the message, or the message has a
\* content: empty, blank, no JSON, JSON that is no list, or a JSON list.
Response(kind, list) == [kind |-> kind, list |-> list]

\* Lines 287-333: the list analyze_with_ai returns, or the error it raises.
analyze_with_ai(response) ==
    IF response.kind \in {"RequestException", "HTTPError", "body not JSON",
                          "no choices", "no content", "content not JSON"}
    THEN [error |-> "AI analysis failed", value |-> <<>>]
    ELSE IF response.kind \in {"content empty", "content blank"}
    THEN [error |-> "", value |-> <<>>]
    ELSE IF response.kind = "JSON list"
    THEN [error |-> "", value |-> response.list]
    ELSE [error |-> "", value |-> <<>>]

\* The call of save_to_csv a log_activity call ends in, for what it returns.
Saves(entries) == Returned("save_to_csv", <<>>, entries)

\* A slip: every list is passed on to save_to_csv, the empty one too.
log_activity_saves_any_list(api_key, response) ==
    IF ~validate_api_key(api_key)
    THEN ValueError("API key is not set or invalid. Please configure your API key.")
    ELSE LET parsed == analyze_with_ai(response)
         IN IF parsed.error # "" THEN RaisesFrom(<<parsed.error>>)
            ELSE Saves(parsed.value)

\* Lines 212-218: what log_activity raises or returns, save_to_csv left to
\* be called.
log_activity(api_key, response) ==
    IF ~validate_api_key(api_key)
    THEN ValueError("API key is not set or invalid. Please configure your API key.")
    ELSE LET parsed == analyze_with_ai(response)
         IN IF parsed.error # "" THEN RaisesFrom(<<parsed.error>>)
            ELSE IF parsed.value # <<>> THEN Saves(parsed.value)
            ELSE Returned("False", <<>>, <<>>)

----------------------------------------------------------------------------
(* to_csv, write by write *)

\* to_csv writes through a buffer: text that fits the buffer reaches the file
\* in one write when the file is closed, longer text in one write per
\* bufferful, cut wherever the buffer is full.  Mode 'a' puts each write at
\* the end the file has at that moment.  The buffer is counted in cells here
\* and is scaled down: it holds the header, one row and two cells more.
WriteBuffer == 12

\* The lines to_csv formats (lines 401-406).
csv_text(header, rows) ==
    (IF header THEN <<full_schema_columns>> ELSE <<>>)
    \o [i \in 1..Len(rows) |-> csv_line(rows[i])]

\* The first write of `lines` through a buffer with `room` cells left: whole
\* lines while they fit, then the first cells of the next line, cut after a
\* comma; `rest` is what stays to be written.
RECURSIVE first_write(_, _)
first_write(lines, room) ==
    IF lines = <<>> THEN [lines |-> <<>>, eol |-> TRUE, rest |-> <<>>]
    ELSE IF Len(lines[1]) <= room
    THEN LET more == first_write(Tail(lines), room - Len(lines[1]))
         IN [lines |-> <<lines[1]>> \o more.lines, eol |-> more.eol, rest |-> more.rest]
    ELSE IF room = 0 THEN [lines |-> <<>>, eol |-> TRUE, rest |-> lines]
    ELSE [lines |-> << SubSeq(lines[1], 1, room) \o <<"">> >>,
          eol |-> FALSE,
          rest |-> << SubSeq(lines[1], room + 1, Len(lines[1])) >> \o Tail(lines)]

\* A slip: the file is opened in mode 'w', each write replaces the file.
write_truncating(f, ls, nl) == File(ls, nl)

\* One write in mode 'a': the lines `ls`, the last one ended or not (nl).
write(f, ls, nl) ==
    IF ls = <<>> THEN f ELSE File(append_lines(f, ls).lines, nl)

----------------------------------------------------------------------------
(* The analysis functions *)

\* A table (data frame) is [columns, rows] under final_columns; in the tables
\* passed to these functions a quantity is a whole number of thousandths, so
\* that rounding to two decimals does something.

RECURSIVE sum(_)
sum(values) == IF values = <<>> THEN 0 ELSE Head(values) + sum(Tail(values))

\* A slip: the decimals after the second are cut off.
round_down(x) == x - (x % 10)

\* .round(2) of a number of thousandths: the nearest hundredth, the even one
\* of two that are as near.
round(x) ==
    LET r == x % 10
    IN IF r < 5 THEN x - r
       ELSE IF r > 5 THEN x + 10 - r
       ELSE IF ((x - r) \div 10) % 2 = 0 THEN x - r ELSE x + 10 - r

\* The order of str on the labels that occur, ascending.
LabelOrder == <<"", "Walk", "Water", "water">>

\* The keys of a groupby, which sorts them: labels, and periods (numbers).
sorted_labels(S) == LET in(l) == l \in S IN SelectSeq(LabelOrder, in)

RECURSIVE sorted_numbers(_)
sorted_numbers(S) ==
    IF S = {} THEN <<>>
    ELSE LET least == CHOOSE x \in S : \A y \in S : x <= y
         IN <<least>> \o sorted_numbers(S \ {least})

\* The quantities of the rows in `rows` whose key (key[i] for rows[i]) is k.
group_quantities(rows, key, k) ==
    LET mine == SelectSeq([i \in 1..Len(rows) |-> <<key[i], rows[i][3]>>],
                          LAMBDA pair : pair[1] = k)
    IN [i \in 1..Len(mine) |-> mine[i][2]]

\* Lines 586-588
get_totals(t) ==
    IF t.rows = <<>> THEN Returned("series", <<>>, <<>>)
    ELSE LET key == [i \in 1..Len(t.rows) |-> cell(t, t.rows[i], "activity")]
             keys == sorted_labels(Range(key))
         IN Returned("series", <<"activity", "quantity">>,
                     [k \in 1..Len(keys) |->
                        <<keys[k], round(sum(group_quantities(t.rows, key, keys[k])))>>])

\* sort_values(by='timestamp'): the rows in ascending order of timestamp; the
\* order of rows with the same timestamp is not determined (the default sort
\* is not stable), so this is the set of the orders there can be.
sort_values(rows) ==
    { sorted \in { [i \in 1..Len(rows) |-> rows[p[i]]] : p \in Permutations(1..Len(rows)) } :
        \A i \in 1..(Len(sorted) - 1) : sorted[i][1] <= sorted[i + 1][1] }

\* df[df['date'] == today], `instant` being what datetime.now() returns
today_rows(t, instant) ==
    LET mine(row) == cell(t, row, "date") = DayOf[instant]
    IN SelectSeq(t.rows, mine)

\* A slip: the rows of today are returned in the order of the table.
get_today_activities_unsorted(t, instant) ==
    { Returned("table", t.columns, today_rows(t, instant)) }

\* Lines 620-621: the results the call can return
get_today_activities(t, instant) ==
    { Returned("table", t.columns, sorted) : sorted \in sort_values(today_rows(t, instant)) }

\* A slip: the end of the range is excluded.
in_range_end_excluded(d, start_date, end_date) == d >= start_date /\ d < end_date

\* Line 659: (df['date'] >= start_date) & (df['date'] <= end_date)
in_range(d, start_date, end_date) == d >= start_date /\ d <= end_date

\* A slip: a range given the wrong way round is turned round.
get_date_range_activities_swapped(t, start_date, end_date) ==
    LET mine(row) ==
            \/ in_range(cell(t, row, "date"), start_date, end_date)
            \/ in_range(cell(t, row, "date"), end_date, start_date)
    IN Returned("table", t.columns, SelectSeq(t.rows, mine))

\* Lines 657-659
get_date_range_activities(t, start_date, end_date) ==
    IF start_date > end_date
    THEN ValueError("start_date must be before or equal to end_date")
    ELSE LET mine(row) == in_range(cell(t, row, "date"), start_date, end_date)
         IN Returned("table", t.columns, SelectSeq(t.rows, mine))

\* A slip: the weeks are numbered within their month.
period_week_of_month(row, group_by) ==
    IF group_by = "day" THEN row[5]
    ELSE IF group_by = "week" THEN WeekOf[DayOf[row[1]]] % 4
    ELSE MonthOf[DayOf[row[1]]]

\* Lines 704-711: the period of a row: its date, or the week or the month of
\* its timestamp.
period(row, group_by) ==
    IF group_by = "day" THEN row[5]
    ELSE IF group_by = "week" THEN WeekOf[DayOf[row[1]]]
    ELSE MonthOf[DayOf[row[1]]]

\* Lines 702-711, group_by being 'day', 'week' or 'month': the sums of the
\* activity's quantities per period, in the order of the periods.
timeline(t, activity, group_by) ==
    LET mine(row) == cell(t, row, "activity") = activity
        activity_df == SelectSeq(t.rows, mine)
        key == [i \in 1..Len(activity_df) |-> period(activity_df[i], group_by)]
        keys == sorted_numbers(Range(key))
    IN Returned("timeline",
                <<IF group_by = "day" THEN "date" ELSE group_by, "quantity">>,
                [k \in 1..Len(keys) |->
                   <<keys[k], sum(group_quantities(activity_df, key, keys[k]))>>])

\* A slip: group_by is checked before the activity is looked up.
get_activity_timeline_period_first(t, activity, group_by) ==
    IF group_by \notin {"day", "week", "month"}
    THEN ValueError("group_by must be 'day', 'week', or 'month'")
    ELSE IF activity \notin {cell(t, t.rows[i], "activity") : i \in 1..Len(t.rows)}
    THEN ValueError("Activity not found in data")
    ELSE timeline(t, activity, group_by)

\* Lines 698-715
get_activity_timeline(t, activity, group_by) ==
    IF activity \notin {cell(t, t.rows[i], "activity") : i \in 1..Len(t.rows)}
    THEN ValueError("Activity not found in data")
    ELSE IF group_by \in {"day", "week", "month"}
    THEN timeline(t, activity, group_by)
    ELSE ValueError("group_by must be 'day', 'week', or 'month'")

\* The minutes from 2024-01-01T00:00 to instant i.
MinutesOf == << 600, 1380, 1500, 2280, 3360, 10620, 41040, 45090 >>

\* Timedelta.days of the time from instant a to a later instant b: the whole
\* days in it.
timedelta_days(a, b) == (MinutesOf[b] - MinutesOf[a]) \div 1440

\* A dict: its keys and, aligned with them, its values.
Dict(keys, values) == Returned("dict", keys, values)

\* Lines 543-556.  The two dicts by activity are held in the order of the
\* labels (a dict is compared without regard to order).
get_data_summary(t) ==
    IF t.rows = <<>> THEN Dict(<<>>, <<>>)
    ELSE LET stamps == {cell(t, t.rows[i], "timestamp") : i \in 1..Len(t.rows)}
             first == CHOOSE x \in stamps : \A y \in stamps : x <= y
             last == CHOOSE x \in stamps : \A y \in stamps : x >= y
             key == [i \in 1..Len(t.rows) |-> cell(t, t.rows[i], "activity")]
             keys == sorted_labels(Range(key))
         IN Dict(<<"total_activities", "unique_activities", "date_range",
                   "activity_counts", "total_quantities">>,
                 << Len(t.rows),
                    Cardinality(Range(key)),
                    Dict(<<"first_entry", "last_entry", "days_tracked">>,
                         <<first, last, timedelta_days(first, last) + 1>>),
                    Dict(keys, [k \in 1..Len(keys) |->
                                  Len(group_quantities(t.rows, key, keys[k]))]),
                    Dict(keys, [k \in 1..Len(keys) |->
                                  sum(group_quantities(t.rows, key, keys[k]))]) >>)

----------------------------------------------------------------------------
(* format_activity_summary *)

\* A loosely typed value is a pair of its Python type and what it holds: a
\* float holds a number of hundredths, an int a whole number, a str a text.
PyFloat(x) == <<"float", x>>
PyInt(n) == <<"int", n>>
PyStr(text) == <<"str", text>>
PyNone == <<"NoneType", 0>>

\* float(v): the number of hundredths, or the exception it raises.
float(v) ==
    IF v[1] = "float" THEN [error |-> "", value |-> v[2]]
    ELSE IF v[1] = "int" THEN [error |-> "", value |-> 100 * v[2]]
    ELSE IF v[1] = "NoneType" THEN [error |-> "TypeError", value |-> 0]
    ELSE IF \E n \in 1..Len(Numerals) : Numerals[n] = v[2]
    THEN [error |-> "", value |-> 100 * (CHOOSE n \in 1..Len(Numerals) : Numerals[n] = v[2])]
    ELSE [error |-> "ValueError", value |-> 0]

\* "{:.1f}".format(x) of a number of hundredths that a float holds exactly:
\* the nearest tenth, the even one of two that are as near.
format_1f(x) ==
    LET r == x % 10
        down == x \div 10
        tenths == IF r < 5 THEN down
                  ELSE IF r > 5 THEN down + 1
                  ELSE IF down % 2 = 0 THEN down ELSE down + 1
    IN ToString(tenths \div 10) \o "." \o ToString(tenths % 10)

\* str.rstrip() of the texts a unit can be (none ends in a blank).
rstrip(text) == IF text \in {"", " "} THEN "" ELSE text

\* Lines 980-992: the line of one entry (line 992).  .strip() finds nothing to remove at
\* the front ("-"), and removes at the end the blanks of the unit and the
\* blank before an empty unit.
summary_part(activity_data) ==
    LET converted == float(activity_data["quantity"])
        quantity == IF converted.error = "" THEN converted.value ELSE 0
        unit == IF "unit" \in DOMAIN activity_data THEN activity_data["unit"] ELSE ""
        front == "- " \o activity_data["activity"] \o ": " \o format_1f(quantity)
    IN IF rstrip(unit) = "" THEN front ELSE front \o " " \o rstrip(unit)

\* separator.join(parts)
RECURSIVE join(_, _)
join(separator, parts) ==
    IF parts = <<>> THEN ""
    ELSE IF Len(parts) = 1 THEN parts[1]
    ELSE parts[1] \o separator \o join(separator, Tail(parts))

\* A str a call returns.
Text(text) == Returned("str", <<>>, <<text>>)

\* Lines 976-994.  The separator of line 994 is written "\\n" in the source:
\* a backslash and the letter n.
format_activity_summary(entries) ==
    IF entries = <<>> THEN Text("No activities logged yet.")
    ELSE Text(join("\\n", [i \in 1..Len(entries) |-> summary_part(entries[i])]))

----------------------------------------------------------------------------
(* The task store *)

\* Line 1195
task_columns == <<"task_id", "description", "status", "created_at">>

\* Line 1198
valid_statuses == {"pending", "completed", "in_progress", "cancelled"}

\* strftime('%Y-%m-%dT%H:%M:%S.%f') of instant i (lines 1320, 1391).
strftime(i) == TsText[i] \o ".000000"

\* pd.to_datetime(..., errors='coerce', format='mixed') on one cell (line 1223)
to_datetime_mixed(v) ==
    IF \E i \in 1..Len(TsText) : v \in {TsText[i], strftime(i)}
    THEN CHOOSE i \in 1..Len(TsText) : v \in {TsText[i], strftime(i)}
    ELSE NaT

\* The orders sort_values(by='created_at') can leave task rows in: ascending
\* or descending, rows of the same instant in any order.
sort_tasks(rows, ascending) ==
    { sorted \in { [i \in 1..Len(rows) |-> rows[p[i]]] : p \in Permutations(1..Len(rows)) } :
        \A i \in 1..(Len(sorted) - 1) :
            IF ascending THEN sorted[i][4] <= sorted[i + 1][4]
            ELSE sorted[i][4] >= sorted[i + 1][4] }

\* Lines 1207-1234: the rows load_tasks keeps, in the order of the file.  A
\* task row is <<task_id, description, status, created_at>>.
kept_tasks(f, status_filter) ==
    LET parsed == read_csv(f.lines)
        df == parsed.df
        row_of(row) == << cell(df, row, "task_id"), cell(df, row, "description"),
                          cell(df, row, "status"),
                          to_datetime_mixed(cell(df, row, "created_at")) >>
        keep(row) ==
            /\ row[4] # NaT
            /\ row[1] \notin {NAN, ""}
            /\ row[2] \notin {NAN, ""} /\ rstrip(row[2]) # ""
            /\ status_filter # NONE => row[3] = status_filter
    IN IF ~f.exists \/ parsed.error # "" \/ df.rows = <<>> THEN <<>>
       ELSE IF ~(Range(task_columns) \subseteq Range(df.columns)) THEN <<>>
       ELSE SelectSeq([i \in 1..Len(df.rows) |-> row_of(df.rows[i])], keep)

\* Lines 1195-1258: the frames load_tasks(status_filter) can return, newest
\* task first.
load_tasks(f, status_filter) ==
    IF status_filter # NONE /\ status_filter \notin valid_statuses THEN { <<>> }
    ELSE sort_tasks(kept_tasks(f, status_filter), FALSE)

\* Line 1309: df.loc[df['task_id'] == task_id, 'status'] = new_status
set_status(df, task_id, new_status) ==
    [i \in 1..Len(df) |-> IF df[i][1] = task_id THEN [df[i] EXCEPT ![3] = new_status]
                          ELSE df[i]]

\* Line 1378: df[df['task_id'] != task_id]
without_task(df, task_id) == SelectSeq(df, LAMBDA row : row[1] # task_id)

\* Lines 1315-1329 and 1381-1400: the files to_csv can leave (mode 'w': the
\* file is replaced), the header and the rows of df, oldest first.
rewritten(df) ==
    { File(<<task_columns>>
           \o [i \in 1..Len(sorted) |->
                 <<sorted[i][1], sorted[i][2], sorted[i][3], strftime(sorted[i][4])>>],
           TRUE) :
        sorted \in sort_tasks(df, TRUE) }

\* Lines 1133-1145: whether add_task writes the header.
task_needs_header(f) ==
    IF ~f.exists THEN TRUE
    ELSE read_csv(SubSeq(f.lines, 1, Min(1, Len(f.lines)))).error # ""

\* A slip: add_task opens the file in mode 'w'.
task_appended_truncating(f, header, task_id, description, created_at) ==
    File((IF header THEN <<task_columns>> ELSE <<>>)
         \o << <<task_id, description, "pending", TsText[created_at]>> >>, TRUE)

\* Lines 1148-1154: the file after add_task's to_csv in mode 'a'.
task_appended(f, header, task_id, description, created_at) ==
    append_lines(f, (IF header THEN <<task_columns>> ELSE <<>>)
                    \o << <<task_id, description, "pending", TsText[created_at]>> >>)

----------------------------------------------------------------------------
(* The callers' inputs *)

\* What a caller passes for activity, quantity and unit.
Payloads == { <<"Water", 1, "ml">>, <<"Walk", 2, "N/A">>, <<"Sex", 1, NONE>> }

\* Instants a caller supplies as a record's timestamp.
ExplicitInstants == {4}

\* One input record: its payload, and whether it has no 'timestamp' key
\* ("missing"), holds None, or holds the text of instant `at`.
Entries ==
    { e \in [payload : Payloads, given : {"missing", "None", "explicit"},
             at : ExplicitInstants \cup {0}] :
        (e.given = "explicit") <=> (e.at # 0) }

\* The dict the caller passes.
record_of(e) ==
    LET base == [activity |-> e.payload[1], quantity |-> e.payload[2], unit |-> e.payload[3]]
    IN IF e.given = "missing" THEN base
       ELSE [k \in DOMAIN base \cup {"timestamp"} |->
                IF k # "timestamp" THEN base[k]
                ELSE IF e.given = "None" THEN NONE ELSE TsText[e.at]]

\* The batches of at most n records.  A batch is not empty: log_activity
\* (line 216) passes on only a non-empty list.
Batches(n) == UNION { [1..k -> Entries] : k \in 1..Min(n, MaxBatch) }

\* The instants the clock shows while the loop of line 372 runs over `batch`:
\* it never runs backwards, and it is read (line 374) only for a record that
\* supplies no timestamp, so that is where the model lets it advance.
ClockReads(batch) ==
    { r \in [1..Len(batch) -> now..MaxNow] :
        \A i \in 1..Len(batch) :
            LET before == IF i = 1 THEN now ELSE r[i - 1]
            IN IF batch[i].given = "explicit" THEN r[i] = before ELSE r[i] >= before }

\* History: what was logged for entry e, stamped at instant t if it supplied none.
logged_record(e, t) ==
    [timestamp |-> IF e.given = "explicit" THEN e.at ELSE t,
     activity |-> e.payload[1], quantity |-> e.payload[2], unit |-> e.payload[3]]

data_rows(f) == IF Len(f.lines) = 0 THEN 0 ELSE Len(f.lines) - 1

----------------------------------------------------------------------------
(* Store files written by hand or by an older version *)

Headers ==
    { <<"timestamp", "activity", "quantity", "unit", "date">>,
      <<"timestamp", "activity", "quantity", "unit">>,
      <<"timestamp", "activity", "quantity">>,
      <<"tidspunkt", "aktivitet", "mengde", "enhet">>,
      <<"tidspunkt", "aktivitet", "mengde", "enhet", "date">>,
      <<"tidspunkt", "timestamp", "aktivitet", "mengde">> }

\* The cells a column of that name can hold on disk.
CellsOf(c) ==
    IF c = "timestamp" THEN {TsText[1], TsText[3], "invalid-date"}
    ELSE IF c = "tidspunkt" THEN {TsText[1], "invalid-date"}
    ELSE IF c \in {"quantity", "mengde"} THEN {"2", "not-a-number"}
    ELSE IF c \in {"activity", "aktivitet"} THEN {"Water"}
    ELSE IF c \in {"unit", "enhet"} THEN {"ml"}
    ELSE {DateText[1], "garbage"}

RECURSIVE RowsOf(_)
RowsOf(h) ==
    IF h = <<>> THEN { <<>> }
    ELSE { <<c>> \o r : c \in CellsOf(Head(h)), r \in RowsOf(Tail(h)) }

\* A row of valid cells, and the same row with a field too few and too many.
TypicalCell(c) ==
    IF c \in {"timestamp", "tidspunkt"} THEN TsText[1]
    ELSE IF c \in {"quantity", "mengde"} THEN "2"
    ELSE IF c \in {"activity", "aktivitet"} THEN "Water"
    ELSE IF c \in {"unit", "enhet"} THEN "ml"
    ELSE DateText[1]
TypicalRow(h) == [j \in 1..Len(h) |-> TypicalCell(h[j])]
RaggedRowsOf(h) ==
    { SubSeq(TypicalRow(h), 1, Len(h) - 1), Append(TypicalRow(h), "extra") }

FileRowsOf(h) == RowsOf(h) \cup RaggedRowsOf(h)

StoreFiles ==
    { Absent, File(<<>>, TRUE) }
    \cup UNION { { File(<<h>> \o rows, TRUE) :
                      rows \in UNION { [1..n -> FileRowsOf(h)] : n \in 0..MaxStoreRows } } :
                  h \in Headers }

----------------------------------------------------------------------------
(* Tables passed to the analysis functions *)

\* Instants of three days: 23:00 of a Monday, 01:00 and 14:00 of the Tuesday
\* after it, and noon of a Monday four weeks later in the same month.
TableInstants == {2, 3, 4, 7}
TableActivities == {"Water", "Walk"}
TableQuantities == {1004, 2500}     \* 1.004 and 2.5

\* Rows as load_data returns them: the date is the date of the timestamp.
TableRows ==
    { <<t, a, q, "ml", DayOf[t]>> : t \in TableInstants, a \in TableActivities,
                                    q \in TableQuantities }

Tables ==
    { [columns |-> final_columns, rows |-> rows] :
        rows \in UNION { [1..n -> TableRows] : n \in 0..MaxTableRows } }

\* The table a caller holds who never loaded one.
NoTable == [columns |-> final_columns, rows |-> <<>>]

----------------------------------------------------------------------------
(* The surroundings of log_activity *)

ApiKeys ==
    { ApiKey(TRUE, "", 0), ApiKey(FALSE, "pk-", 26), ApiKey(FALSE, "sk-", 8),
      ApiKey(FALSE, "sk-or-", 26) }

\* The lists the parser returns: records of activity, quantity and unit,
\* the unit a text or null.
ParsedLists(n) ==
    { b \in UNION { [1..k -> Entries] : k \in 0..Min(n, MaxBatch) } :
        \A i \in 1..Len(b) : b[i].given = "missing" /\ b[i].payload[1] # "Walk" }

Responses(n) ==
    { Response(kind, <<>>) :
        kind \in {"RequestException", "HTTPError", "body not JSON", "no choices",
                  "no content", "content not JSON", "content empty", "content blank",
                  "JSON object"} }
    \cup { Response("JSON list", list) : list \in ParsedLists(n) }

----------------------------------------------------------------------------
(* Task files, and the calls on the task store *)

\* Two tasks, and three rows load_tasks leaves out: a created_at that is no
\* timestamp, no task_id, a blank description.
TaskRows ==
    { <<"t1", "Buy milk", "pending", TsText[1]>>,
      <<"t2", "Call home", "pending", strftime(3)>>,
      <<"t3", "Old task", "pending", "invalid-date">>,
      <<"", "No id", "pending", TsText[2]>>,
      <<"t4", " ", "pending", TsText[2]>> }

TaskFiles ==
    { Absent }
    \cup { File(<<task_columns>> \o rows, TRUE) :
             rows \in UNION { [1..n -> TaskRows] : n \in 0..MaxStoreRows } }

\* The calls thread k makes.  The first thread changes or deletes task t1,
\* the second adds a task or changes or deletes task t2, a third one adds.
TaskOps(k) ==
    IF k = 1
    THEN { <<"update_task_status", "t1", "completed">>, <<"update_task_status", "t1", "done">>,
           <<"update_task_status", "t9", "completed">>, <<"delete_task", "t1", "">> }
    ELSE IF k = 2
    THEN { <<"add_task", "Water plants", "">>, <<"update_task_status", "t2", "in_progress">>,
           <<"delete_task", "t2", "">> }
    ELSE { <<"add_task", "Pay rent", "">> }

\* A call that has not begun: its arguments, its local variables (df,
\* needs_header, created_at), and history: the file as it read it, and
\* whether the file had changed since when the call replaced it (stale).
NewTaskCall(op) ==
    [pc |-> "start", op |-> op[1], arg |-> op[2], new_status |-> op[3],
     df |-> <<>>, needs_header |-> FALSE, created_at |-> 0,
     read |-> Absent, stale |-> FALSE, out |-> ReturnsNone]

TaskCalls ==
    UNION { { c \in [1..n -> { NewTaskCall(op) : op \in UNION { TaskOps(k) : k \in 1..n } }] :
                \A k \in 1..n : <<c[k].op, c[k].arg, c[k].new_status>> \in TaskOps(k) } :
            n \in 1..MaxThreads }

----------------------------------------------------------------------------
(* Threads that call save_to_csv at the same time *)

\* The batches thread k passes: records of its own quantity, so that a row
\* tells which call wrote it, without a timestamp.
ThreadBatches(k) ==
    { [i \in 1..n |-> [payload |-> <<"Water", k, "ml">>, given |-> "missing", at |-> 0]] :
        n \in 1..MaxBatch }

\* A call that has not begun: where it is (pc), its argument, and its local
\* variables: the rows of new_data_df, needs_header, the lines still to be
\* written; and history: the lines the file held when it was tested, the
\* writes done.
NewCall(batch) ==
    [pc |-> "stamp", batch |-> batch, rows |-> <<>>, needs_header |-> FALSE,
     text |-> <<>>, tested |-> 0, writes |-> 0, out |-> ReturnsNone]

ThreadCalls ==
    UNION { { c \in [1..n -> { NewCall(b) : b \in UNION { ThreadBatches(k) : k \in 1..n } }] :
                \A k \in 1..n : c[k].batch \in ThreadBatches(k) } :
            n \in 1..MaxThreads }

----------------------------------------------------------------------------
(* Lists passed to format_activity_summary *)

\* Entries as a parsed AI response or a row of a table can hold them: the
\* quantity a float, an int, a text or None, the unit a text (without blanks
\* around it) or not there; 'activity' and 'quantity' are always there.
LooseQuantities == { PyFloat(250), PyFloat(125), PyInt(3), PyStr("2"), PyStr("abc"), PyNone }
LooseUnits == { "ml", "" }

LooseEntries ==
    { [activity |-> a, quantity |-> q, unit |-> u] :
        a \in {"Water"}, q \in LooseQuantities, u \in LooseUnits }
    \cup { [activity |-> a, quantity |-> q] : a \in {"Walk"}, q \in LooseQuantities }

LooseLists == UNION { [1..n -> LooseEntries] : n \in 0..MaxBatch }

----------------------------------------------------------------------------
\* Arguments: the dates of a range, the activity and the group_by of a timeline.
RangeDates == {DayOf[t] : t \in TableInstants}
Activities == TableActivities \cup {"water"}
GroupBys == {"day", "week", "month", "year"}

----------------------------------------------------------------------------
(* The calls *)

NoCall == [op |-> "none", out |-> ReturnsNone]

Init ==
    /\ store = Absent
    /\ table = NoTable
    /\ now = 1
    /\ ret = NoCall
    /\ logged = <<>>
    /\ saves = 0
    /\ origin = store
    /\ held = <<>>
    /\ calls = <<>>
    /\ tasks = Absent

InitStore ==
    /\ store \in StoreFiles
    /\ table = NoTable
    /\ now = 1
    /\ ret = NoCall
    /\ logged = <<>>
    /\ saves = 0
    /\ origin = store
    /\ held = <<>>
    /\ calls = <<>>
    /\ tasks = Absent

\* save_to_csv(activities) returns True
SaveToCsv ==
    /\ \E batch \in Batches(MaxStoreRows - data_rows(store)) :
         /\ \E reads \in ClockReads(batch) :
              /\ store' = save_to_csv(store, [i \in 1..Len(batch) |-> record_of(batch[i])], reads)
              /\ now' = reads[Len(batch)]
              /\ logged' = logged \o [i \in 1..Len(batch) |-> logged_record(batch[i], reads[i])]
    /\ saves' = saves + 1
    /\ ret' = [op |-> "save", out |-> save_outcome("")]
    /\ UNCHANGED <<table, origin, held, calls, tasks>>

\* save_to_csv(activities) raises: to_csv failed on an I/O error.  The loop
\* of line 372 has run before, so the clock may have been read and moved on.
SaveToCsvFails ==
    /\ Batches(MaxStoreRows - data_rows(store)) # {}
    /\ \E t \in now..MaxNow : now' = t
    /\ \E opened \in BOOLEAN : store' = to_csv_failed(store, opened)
    /\ ret' = [op |-> "save", out |-> save_outcome("OSError")]
    /\ UNCHANGED <<table, logged, saves, origin, held, calls, tasks>>

\* A slip: the file is opened in a mode that creates it when it is missing.
LoadData_creating ==
    /\ ret' = [op |-> "load", out |-> load_data(store)]
    /\ store' = IF store.exists THEN store ELSE File(<<>>, TRUE)
    /\ UNCHANGED <<table, now, logged, saves, origin, held, calls, tasks>>

\* load_data()
LoadData ==
    /\ ret' = [op |-> "load", out |-> load_data(store)]
    /\ UNCHANGED <<store, table, now, logged, saves, origin, held, calls, tasks>>

Next == SaveToCsv \/ SaveToCsvFails \/ LoadData

\* A caller holding any table, late on the first day.
InitTable ==
    /\ store = Absent
    /\ table \in Tables
    /\ now = 2
    /\ ret = NoCall
    /\ logged = <<>>
    /\ saves = 0
    /\ origin = store
    /\ held = <<>>
    /\ calls = <<>>
    /\ tasks = Absent

\* get_totals(df)
GetTotals ==
    /\ ret' = [op |-> "get_totals", out |-> get_totals(table)]
    /\ UNCHANGED <<store, table, now, logged, saves, origin, held, calls, tasks>>

\* get_today_activities(df)
GetTodayActivities ==
    /\ \E out \in get_today_activities(table, now) :
         ret' = [op |-> "get_today_activities", out |-> out]
    /\ UNCHANGED <<store, table, now, logged, saves, origin, held, calls, tasks>>

\* get_date_range_activities(df, start_date, end_date)
GetDateRangeActivities ==
    /\ \E start_date \in RangeDates, end_date \in RangeDates :
         ret' = [op |-> "get_date_range_activities",
                 args |-> <<start_date, end_date>>,
                 out |-> get_date_range_activities(table, start_date, end_date)]
    /\ UNCHANGED <<store, table, now, logged, saves, origin, held, calls, tasks>>

\* get_activity_timeline(df, activity, group_by)
GetActivityTimeline ==
    /\ \E activity \in Activities, group_by \in GroupBys :
         ret' = [op |-> "get_activity_timeline",
                 args |-> <<activity, group_by>>,
                 out |-> get_activity_timeline(table, activity, group_by)]
    /\ UNCHANGED <<store, table, now, logged, saves, origin, held, calls, tasks>>

\* get_data_summary(df)
GetDataSummary ==
    /\ ret' = [op |-> "get_data_summary", out |-> get_data_summary(table)]
    /\ UNCHANGED <<store, table, now, logged, saves, origin, held, calls, tasks>>

\* Midnight passes between two calls.
MidnightPasses ==
    /\ now = 2
    /\ now' = 3
    /\ UNCHANGED <<store, table, ret, logged, saves, origin, held, calls, tasks>>

NextTable ==
    \/ GetTotals
    \/ GetTodayActivities
    \/ GetDateRangeActivities
    \/ GetActivityTimeline
    \/ GetDataSummary
    \/ MidnightPasses

\* A caller holding any list of entries.
InitFormat ==
    /\ store = Absent
    /\ table = NoTable
    /\ now = 1
    /\ ret = NoCall
    /\ logged = <<>>
    /\ saves = 0
    /\ origin = store
    /\ held \in LooseLists
    /\ calls = <<>>
    /\ tasks = Absent

\* format_activity_summary(activities)
FormatActivitySummary ==
    /\ ret' = [op |-> "format_activity_summary", out |-> format_activity_summary(held)]
    /\ UNCHANGED <<store, table, now, logged, saves, origin, held, calls, tasks>>

NextFormat == FormatActivitySummary

\* log_activity(user_input), under any API key and any response to the
\* request; the call of save_to_csv it ends in returns True.
LogActivity ==
    \E api_key \in ApiKeys, response \in Responses(MaxStoreRows - data_rows(store)) :
        LET out == log_activity(api_key, response)
            batch == out.rows
        IN IF out.kind = "save_to_csv"
           THEN /\ \E reads \in ClockReads(batch) :
                     /\ store' = save_to_csv(store, [i \in 1..Len(batch) |-> record_of(batch[i])], reads)
                     /\ now' = IF batch = <<>> THEN now ELSE reads[Len(batch)]
                     /\ logged' = logged \o [i \in 1..Len(batch) |-> logged_record(batch[i], reads[i])]
                /\ saves' = saves + 1
                /\ ret' = [op |-> "log", args |-> <<validate_api_key(api_key), response.kind, Len(response.list)>>,
                           out |-> save_outcome("")]
                /\ UNCHANGED <<table, origin, held, calls, tasks>>
           ELSE /\ ret' = [op |-> "log", args |-> <<validate_api_key(api_key), response.kind, Len(response.list)>>,
                           out |-> out]
                /\ UNCHANGED <<store, table, now, logged, saves, origin, held, calls, tasks>>

NextLog == LogActivity \/ LoadData

\* Threads about to call save_to_csv on a store that is absent or zero-length;
\* load_data() is called when they have all returned (the threads are joined).
InitThreads ==
    /\ store \in {Absent, File(<<>>, TRUE)}
    /\ table = NoTable
    /\ now = 1
    /\ ret = NoCall
    /\ logged = <<>>
    /\ saves = 0
    /\ origin = store
    /\ held = <<>>
    /\ calls \in ThreadCalls
    /\ tasks = Absent

\* Thread k runs lines 372-395: the records are stamped, new_data_df is built.
\* The threads start together: the clock shows the same instant to all of
\* them (what is checked of these runs does not depend on the instants).
Stamps(k) ==
    /\ calls[k].pc = "stamp"
    /\ LET recs == [i \in 1..Len(calls[k].batch) |->
                     stamp(record_of(calls[k].batch[i]), now)]
       IN calls' = [calls EXCEPT ![k].pc = "test",
                                 ![k].rows = [i \in 1..Len(recs) |-> schema_row(recs, recs[i])]]
    /\ UNCHANGED <<store, table, now, ret, logged, saves, origin, held, tasks>>

\* Thread k runs line 400 and enters to_csv, which formats the text.
TestsHeader(k) ==
    /\ calls[k].pc = "test"
    /\ calls' = [calls EXCEPT ![k].pc = "write",
                              ![k].needs_header = needs_header(store),
                              ![k].tested = Len(store.lines),
                              ![k].text = csv_text(needs_header(store), calls[k].rows)]
    /\ UNCHANGED <<store, table, now, ret, logged, saves, origin, held, tasks>>

\* to_csv of thread k does a write (lines 401-406).
Writes(k) ==
    /\ calls[k].pc = "write"
    /\ LET piece == first_write(calls[k].text, WriteBuffer)
       IN /\ store' = write(store, piece.lines, piece.eol)
          /\ calls' = [calls EXCEPT ![k].text = piece.rest,
                                    ![k].writes = @ + 1,
                                    ![k].pc = IF piece.rest = <<>> THEN "return" ELSE "write"]
    /\ UNCHANGED <<table, now, ret, logged, saves, origin, held, tasks>>

\* Thread k returns True (line 407).
Returns(k) ==
    /\ calls[k].pc = "return"
    /\ calls' = [calls EXCEPT ![k].pc = "done", ![k].out = save_outcome("")]
    /\ saves' = saves + 1
    /\ UNCHANGED <<store, table, now, ret, logged, origin, held, tasks>>

NextThreads ==
    \/ \E k \in DOMAIN calls : Stamps(k)
    \/ \E k \in DOMAIN calls : TestsHeader(k)
    \/ \E k \in DOMAIN calls : Writes(k)
    \/ \E k \in DOMAIN calls : Returns(k)
    \/ (\A k \in DOMAIN calls : calls[k].pc = "done") /\ LoadData

\* Threads about to call add_task, update_task_status or delete_task on any
\* task file.
InitTasks ==
    /\ store = Absent
    /\ table = NoTable
    /\ now = 1
    /\ ret = NoCall
    /\ logged = <<>>
    /\ saves = 0
    /\ tasks \in TaskFiles
    /\ origin = tasks
    /\ held = <<>>
    /\ calls \in TaskCalls

\* A call of thread k ends: it raised, or returned None.
Ended(k, out) == [calls EXCEPT ![k].pc = "done", ![k].out = out]

\* update_task_status and delete_task of thread k, lines 1287-1309 and
\* 1360-1378: the arguments are checked, the tasks loaded, the task looked
\* up, and df changed.
LoadsTasks(k) ==
    /\ calls[k].pc = "start"
    /\ calls[k].op \in {"update_task_status", "delete_task"}
    /\ \E df \in load_tasks(tasks, NONE) :
         calls' =
            IF calls[k].arg = "" THEN Ended(k, ValueError("Task ID must be a non-empty string"))
            ELSE IF calls[k].op = "update_task_status" /\ calls[k].new_status \notin valid_statuses
            THEN Ended(k, ValueError("Invalid status"))
            ELSE IF df = <<>> THEN Ended(k, ValueError("No tasks found in the system"))
            ELSE IF calls[k].arg \notin {df[i][1] : i \in 1..Len(df)}
            THEN Ended(k, ValueError("Task not found"))
            ELSE [calls EXCEPT ![k].pc = "write",
                               ![k].read = tasks,
                               ![k].df = IF calls[k].op = "delete_task"
                                         THEN without_task(df, calls[k].arg)
                                         ELSE set_status(df, calls[k].arg, calls[k].new_status)]
    /\ UNCHANGED <<store, table, now, ret, logged, saves, origin, held, tasks>>

\* The same call writes df back (lines 1314-1329, 1380-1400) and returns.
RewritesTasks(k) ==
    /\ calls[k].pc = "write"
    /\ calls[k].op \in {"update_task_status", "delete_task"}
    /\ tasks' \in rewritten(calls[k].df)
    /\ calls' = [Ended(k, ReturnsNone) EXCEPT ![k].stale = (calls[k].read # tasks)]
    /\ UNCHANGED <<store, table, now, ret, logged, saves, origin, held>>

\* add_task of thread k, lines 1107-1145: the task is made, the file tested.
TestsTasksFile(k) ==
    /\ calls[k].pc = "start"
    /\ calls[k].op = "add_task"
    /\ calls' = IF rstrip(calls[k].arg) = ""
                THEN Ended(k, ValueError("Task description cannot be empty"))
                ELSE [calls EXCEPT ![k].pc = "write",
                                   ![k].read = tasks,
                                   ![k].created_at = now,
                                   ![k].needs_header = task_needs_header(tasks)]
    /\ UNCHANGED <<store, table, now, ret, logged, saves, origin, held, tasks>>

\* The same call appends the task (lines 1148-1154) and returns.  The
\* task_id is a fresh uuid.
AppendsTask(k) ==
    /\ calls[k].pc = "write"
    /\ calls[k].op = "add_task"
    /\ tasks' = task_appended(tasks, calls[k].needs_header, "new", calls[k].arg,
                              calls[k].created_at)
    /\ calls' = Ended(k, ReturnsNone)
    /\ UNCHANGED <<store, table, now, ret, logged, saves, origin, held>>

\* Time passes.
Tick ==
    /\ now < MaxNow
    /\ now' = now + 1
    /\ UNCHANGED <<store, table, ret, logged, saves, origin, held, calls, tasks>>

NextTasks ==
    \/ \E k \in DOMAIN calls : LoadsTasks(k)
    \/ \E k \in DOMAIN calls : RewritesTasks(k)
    \/ \E k \in DOMAIN calls : TestsTasksFile(k)
    \/ \E k \in DOMAIN calls : AppendsTask(k)
    \/ Tick

\* A caller holding a list of records it is to pass to save_to_csv, more
\* than once, on an absent store.
InitCaller ==
    /\ store = Absent
    /\ table = NoTable
    /\ now = 1
    /\ ret = NoCall
    /\ logged = <<>>
    /\ saves = 0
    /\ origin = store
    /\ held \in { [i \in 1..Len(batch) |-> record_of(batch[i])] : batch \in Batches(MaxBatch) }
    /\ calls = <<>>
    /\ tasks = Absent

\* The instants the clock shows while the loop of line 372 runs over the
\* records: it is read (line 374) only for a record without a timestamp.
RecordClockReads(records) ==
    { r \in [1..Len(records) -> now..MaxNow] :
        \A i \in 1..Len(records) :
            LET before == IF i = 1 THEN now ELSE r[i - 1]
            IN IF stamp(records[i], before) = records[i] THEN r[i] = before ELSE r[i] >= before }

\* A slip: save_to_csv stamps copies, the caller's records stay as they were.
SaveToCsvSameRecords_copying ==
    /\ saves < MaxResaves
    /\ \E reads \in RecordClockReads(held) :
         /\ store' = save_to_csv(store, held, reads)
         /\ now' = reads[Len(held)]
    /\ saves' = saves + 1
    /\ ret' = [op |-> "save", out |-> save_outcome(""), at |-> now']
    /\ UNCHANGED <<table, logged, origin, held, calls, tasks>>

\* save_to_csv(held) returns True, at the instant ret.at.  The loop of lines 372-374 assigns into
\* the dicts of the caller's list, so the caller holds the stamped records.
SaveToCsvSameRecords ==
    /\ saves < MaxResaves
    /\ \E reads \in RecordClockReads(held) :
         /\ store' = save_to_csv(store, held, reads)
         /\ held' = [i \in 1..Len(held) |-> stamp(held[i], reads[i])]
         /\ now' = reads[Len(held)]
    /\ saves' = saves + 1
    /\ ret' = [op |-> "save", out |-> save_outcome(""), at |-> now']
    /\ UNCHANGED <<table, logged, origin, calls, tasks>>

NextCaller == SaveToCsvSameRecords \/ Tick \/ LoadData

\* Runs that start without a store file.
Spec == Init /\ [][Next]_vars

\* Runs that start from any store file.
SpecStore == InitStore /\ [][Next]_vars

\* Calls of the analysis functions on any table.
SpecTable == InitTable /\ [][NextTable]_vars

\* Calls of log_activity and load_data, from no store file.
SpecLog == Init /\ [][NextLog]_vars

\* Threads calling the task functions at the same time, in every interleaving.
SpecTasks == InitTasks /\ [][NextTasks]_vars

\* Threads calling save_to_csv at the same time, in every interleaving.
SpecThreads == InitThreads /\ [][NextThreads]_vars

\* Calls of format_activity_summary on any list of entries.
SpecFormat == InitFormat /\ [][NextFormat]_vars

\* A caller that passes the same list of records to save_to_csv again.
SpecCaller == InitCaller /\ [][NextCaller]_vars

----------------------------------------------------------------------------
(* Vocabulary of the properties *)

Loaded == ret.op = "load"
Out == ret.out
ZeroLength == File(<<>>, TRUE)

\* A label as the Reader hands it back: None, and a text read_csv takes for a
\* missing value, come back as the empty string.
Defaulted(v) == IF v \in NaValues \cup {NONE} THEN "" ELSE v

\* What a line of a store holds for a field, going by the header: the cell
\* under the field's canonical name, else the cell under its legacy name.
LegacyName(c) ==
    CASE c = "timestamp" -> "tidspunkt"
      [] c = "activity" -> "aktivitet"
      [] c = "quantity" -> "mengde"
      [] c = "unit" -> "enhet"
      [] OTHER -> c
Position(h, c) == CHOOSE j \in 1..Len(h) : h[j] = c
CellAt(line, j) == IF j <= Len(line) THEN line[j] ELSE ""
DiskCell(h, line, c) ==
    IF c \in Range(h) THEN CellAt(line, Position(h, c))
    ELSE IF LegacyName(c) \in Range(h) THEN CellAt(line, Position(h, LegacyName(c)))
    ELSE ""
ValidLine(h, line) ==
    /\ to_datetime(DiskCell(h, line, "timestamp")) # NaT
    /\ to_numeric(DiskCell(h, line, "quantity")) # NaN
ValidLines(f) ==
    LET valid(line) == ValidLine(f.lines[1], line)
    IN SelectSeq(Tail(f.lines), valid)

\* No data line holds more fields than the header.
Rectangular(f) == \A i \in 2..Len(f.lines) : Len(f.lines[i]) <= Len(f.lines[1])

----------------------------------------------------------------------------
(* C1  Round-trip *)

----------------------------------------------------------------------------
(* C2  Accumulation *)

IsPrefix(s, t) == Len(s) <= Len(t) /\ SubSeq(t, 1, Len(s)) = s

----------------------------------------------------------------------------
(* C3  Drop invariant *)

\* The rows load_data() has to return for store f, going by the header.
KeptAsLoaded(f) ==
    /\ Out.kind = "table"
    /\ Len(Out.rows) = Len(ValidLines(f))
    /\ \A i \in 1..Len(ValidLines(f)) :
         /\ Out.rows[i][1] = to_datetime(DiskCell(f.lines[1], ValidLines(f)[i], "timestamp"))
         /\ Out.rows[i][3] = to_numeric(DiskCell(f.lines[1], ValidLines(f)[i], "quantity"))

----------------------------------------------------------------------------
(* C4  The absent result *)

\* C4: load_data() returns None exactly when the file does not exist at the
\* call: never after an append, never a table or an error for a missing file,
\* and the file is still missing after the call.
C4_AbsentIffMissing ==
    Loaded =>
        /\ (Out.kind = "ABSENT") <=> ~store.exists
        /\ ~store.exists => Out = ReturnsNone
        /\ saves > 0 => Out.kind # "ABSENT"

\* load_data() on a missing file.
C4_Witness == Loaded /\ ~store.exists /\ Out.kind = "ABSENT" /\ saves = 0

----------------------------------------------------------------------------
(* C5  A store without data rows *)

\* C5: for every existing store file without a data row, a header-only file
\* or a zero-length one, load_data() returns the empty table.
C5_EmptyStoreLoadsEmpty ==
    (Loaded /\ store.exists /\ data_rows(store) = 0) => Out = empty_table

----------------------------------------------------------------------------
(* C6  Cleaned Table invariant *)

\* C6: whatever load_data() returns other than None has exactly the columns
\* timestamp, activity, quantity, unit, date in that order, and every row
\* has a timestamp and a quantity.
C6_CleanedTable ==
    (Loaded /\ Out.kind \notin {"ABSENT", "raise"}) =>
        /\ Out.kind = "table"
        /\ Out.columns = <<"timestamp", "activity", "quantity", "unit", "date">>
        /\ \A i \in 1..Len(Out.rows) :
             /\ Len(Out.rows[i]) = 5
             /\ Out.rows[i][1] # NaT
             /\ Out.rows[i][3] # NaN

\* A table with rows, loaded from a store whose header is not the canonical one.
C6_Witness ==
    /\ Loaded /\ Out.kind = "table" /\ Len(Out.rows) > 0
    /\ store.lines[1] # full_schema_columns
    /\ "tidspunkt" \in Range(store.lines[1])

----------------------------------------------------------------------------
(* C7  The date is derived *)

\* C7: in every row load_data() returns, date is the calendar date of the
\* row's timestamp, whatever the date cell on disk holds.
C7_DateDerived ==
    (Loaded /\ Out.kind = "table") =>
        \A i \in 1..Len(Out.rows) : Out.rows[i][5] = DayOf[Out.rows[i][1]]

\* Two rows come back, one from a line whose date cell contradicts its
\* timestamp and one from a line whose date cell is no date.
C7_Witness ==
    /\ Loaded /\ Out.kind = "table" /\ Len(Out.rows) = 2 /\ Len(store.lines) = 3
    /\ Len(store.lines[1]) = 5 /\ store.lines[1][5] = "date"
    /\ Len(store.lines[2]) = 5 /\ Len(store.lines[3]) = 5
    /\ store.lines[2][5] = DateText[1] /\ Out.rows[1][5] = 2
    /\ store.lines[3][5] = "garbage"

----------------------------------------------------------------------------
(* C8  Header discipline *)

HeaderLines(f) == {i \in 1..Len(f.lines) : f.lines[i] = full_schema_columns}

----------------------------------------------------------------------------
(* C9  Schema migration *)

LegacyNames == {"tidspunkt", "aktivitet", "mengde", "enhet"}
CanonicalNames == {"timestamp", "activity", "quantity", "unit"}

\* The header names every field by its legacy name.
LegacyHeader(h) ==
    LegacyNames \subseteq Range(h) /\ Range(h) \cap CanonicalNames = {}

\* The same file under the canonical names.
Canonical(f) ==
    [f EXCEPT !.lines[1] = [j \in 1..Len(f.lines[1]) |->
        CASE f.lines[1][j] = "tidspunkt" -> "timestamp"
          [] f.lines[1][j] = "aktivitet" -> "activity"
          [] f.lines[1][j] = "mengde" -> "quantity"
          [] f.lines[1][j] = "enhet" -> "unit"
          [] OTHER -> f.lines[1][j]]]

\* C9: a store under the legacy names loads to what the same lines load to
\* under the canonical names (the same table, or an error for both), and
\* the table has the canonical columns.
C9_SchemaMigration ==
    (Loaded /\ store.exists /\ Len(store.lines) > 0 /\ LegacyHeader(store.lines[1])) =>
        /\ Out = load_data(Canonical(store))
        /\ Out.kind \in {"table", "raise"}
        /\ Out.kind = "table" =>
              Out.columns = <<"timestamp", "activity", "quantity", "unit", "date">>

\* A legacy store of two valid lines, loaded.
C9_Witness ==
    /\ Loaded /\ store.exists /\ Len(store.lines) = 3
    /\ LegacyHeader(store.lines[1])
    /\ Len(Out.rows) = 2

----------------------------------------------------------------------------
(* C10  No clobbering on rename *)

\* C10: when the header holds both 'tidspunkt' and 'timestamp', the rows that
\* come back are the lines whose 'timestamp' cell (and quantity) parse, with
\* that cell's instant; the fields present under the legacy name alone
\* ('mengde') are still taken from the legacy column.
C10_CanonicalWins ==
    (/\ Loaded /\ store.exists /\ Len(store.lines) > 0 /\ Rectangular(store)
     /\ {"tidspunkt", "timestamp", "mengde"} \subseteq Range(store.lines[1])
     /\ "quantity" \notin Range(store.lines[1])) =>
        LET h == store.lines[1]
            ok(line) ==
                /\ to_datetime(CellAt(line, Position(h, "timestamp"))) # NaT
                /\ to_numeric(CellAt(line, Position(h, "mengde"))) # NaN
            kept == SelectSeq(Tail(store.lines), ok)
        IN /\ Out.kind = "table"
           /\ Len(Out.rows) = Len(kept)
           /\ \A i \in 1..Len(kept) :
                /\ Out.rows[i][1] = to_datetime(CellAt(kept[i], Position(h, "timestamp")))
                /\ Out.rows[i][3] = to_numeric(CellAt(kept[i], Position(h, "mengde")))

\* Two lines, each with a valid 'tidspunkt' cell: the one whose 'timestamp'
\* cell is another instant comes back with that instant, the one whose
\* 'timestamp' cell does not parse does not come back.
C10_Witness ==
    /\ Loaded /\ store.exists /\ Len(store.lines) = 3 /\ Rectangular(store)
    /\ store.lines[1] = <<"tidspunkt", "timestamp", "aktivitet", "mengde">>
    /\ store.lines[2][1] = TsText[1] /\ store.lines[2][2] = TsText[3]
    /\ store.lines[3][1] = TsText[1] /\ store.lines[3][2] = "invalid-date"
    /\ Len(Out.rows) = 1 /\ Out.rows[1][1] = 3

----------------------------------------------------------------------------
(* C11  Malformed-row recovery *)

\* The strict parse of f fails on the field counts of its lines.
StrictFails(f) ==
    f.exists /\ read_csv(f.lines).error = "ParserError: Expected fields, saw"

\* The lines of f, the first one too, whose first field is a timestamp and
\* whose third field is a number.
PositionalLines(f) ==
    LET valid(line) ==
            to_datetime(CellAt(line, 1)) # NaT /\ to_numeric(CellAt(line, 3)) # NaN
    IN SelectSeq(f.lines, valid)

\* load_data() returned the lines of f that are valid by position, and the
\* header line is none of them.
RecoveredByPosition(f) ==
    /\ Out.kind = "table"
    /\ Len(Out.rows) = Len(PositionalLines(f))
    /\ \A i \in 1..Len(PositionalLines(f)) :
         /\ Out.rows[i][1] = to_datetime(CellAt(PositionalLines(f)[i], 1))
         /\ Out.rows[i][3] = to_numeric(CellAt(PositionalLines(f)[i], 3))
         /\ PositionalLines(f)[i] # f.lines[1]

\* C11 as stated: whenever the strict parse fails on inconsistent field
\* counts, load_data() does not raise and returns exactly the lines valid by
\* position, without the former header line.
C11_RecoveryVerbatim ==
    (Loaded /\ StrictFails(store)) => RecoveredByPosition(store)

\* C11 amended: the same when no line of the file holds more than five
\* fields (with a longer line the fallback parse fails as well).
C11_Recovery ==
    (Loaded /\ StrictFails(store) /\ \A i \in 1..Len(store.lines) : Len(store.lines[i]) <= 5) =>
        RecoveredByPosition(store)

\* A store in the three-column format with one line, to which save_to_csv
\* appended a five-field line: the strict parse fails and both lines come back.
C11_Witness ==
    /\ Loaded /\ StrictFails(store) /\ saves = 1
    /\ origin.exists /\ Len(origin.lines) = 2 /\ Len(origin.lines[1]) = 3
    /\ Len(store.lines) = 3 /\ Len(store.lines[3]) = 5
    /\ Out.kind = "table" /\ Len(Out.rows) = 2

----------------------------------------------------------------------------
(* C12  Unrecoverable parse failure *)

\* The file cannot be read: the read fails otherwise than on field counts (a
\* file without a line), or it fails on field counts and a line holds more
\* than five fields, which fails the fallback too.
Unreadable(f) ==
    /\ f.exists
    /\ \/ Len(f.lines) = 0
       \/ StrictFails(f) /\ \E i \in 1..Len(f.lines) : Len(f.lines[i]) > 5

\* C12: load_data() on such a file raises from the error of the first read
\* (and names the fallback's error when there was a fallback); it returns no
\* table and no None; and a load_data() call never changes the file.
C12_UnrecoverableRaises ==
    /\ [](Loaded /\ Unreadable(store) =>
            /\ Out.kind = "raise"
            /\ Out.rows = <<>> /\ Out.columns = <<>>
            /\ Len(Out.cause) >= 1
            /\ Out.cause[1] = read_csv(store.lines).error
            /\ StrictFails(store) => Len(Out.cause) = 2)
    /\ [][ret'.op = "load" => store' = store]_vars

\* load_data() raised after the fallback failed, on a file whose second data
\* line holds six fields under a header of five.
C12_Witness ==
    /\ Loaded /\ Unreadable(store) /\ StrictFails(store)
    /\ Len(store.lines) = 3 /\ Len(store.lines[1]) = 5 /\ Len(store.lines[3]) = 6
    /\ Out.kind = "raise" /\ Len(Out.cause) = 2

----------------------------------------------------------------------------
(* C13  Append outcome *)

\* Line i of file f is the row of logged record r.
LineOf(f, i, r) ==
    /\ i <= Len(f.lines)
    /\ f.lines[i][1] = TsText[r.timestamp]
    /\ f.lines[i][3] = Numerals[r.quantity]

\* C13: a save_to_csv call ends in True or in an exception, never in False;
\* when it ends in True the file is the file before the call followed by
\* one line per record of the batch, in order (after the header, if the file
\* had no line); when to_csv fails the call raises from that error, and the
\* batch is not counted as appended.
C13_AppendOutcome ==
    [][ret'.op = "save" =>
        /\ ret'.out.kind \in {"True", "raise"}
        /\ ret'.out.kind = "True" =>
              LET n == Len(logged') - Len(logged)
                  first == Len(store'.lines) - n
              IN /\ n > 0
                 /\ store'.exists
                 /\ first = Len(store.lines) + (IF Len(store.lines) = 0 THEN 1 ELSE 0)
                 /\ IsPrefix(store.lines, store'.lines)
                 /\ \A i \in 1..n : LineOf(store', first + i, logged'[Len(logged) + i])
        /\ ret'.out.kind = "raise" =>
              /\ ret'.out.cause = <<"OSError">>
              /\ logged' = logged /\ saves' = saves]_vars

\* On an absent store, a call that returned True after writing the header and
\* one row, then a call that raised and left the two lines as they were.
C13_Witness ==
    /\ origin = Absent /\ saves = 1 /\ Len(logged) = 1
    /\ ret.op = "save" /\ ret.out.kind = "raise"
    /\ Len(store.lines) = 2 /\ LineOf(store, 2, logged[1])

----------------------------------------------------------------------------
(* C14  Timestamp assignment *)

\* C14: a save_to_csv call, given records that hold no timestamp, None, or
\* the text of an instant, writes for each record one line whose timestamp
\* cell is the text of the supplied instant, or else of an instant the clock
\* showed during the call; no line is written with an empty timestamp cell.
C14_TimestampAssignment ==
    [][ret'.op = "save" /\ ret'.out.kind = "True" =>
        LET n == Len(logged') - Len(logged)
            first == Len(store'.lines) - n
        IN \A i \in 1..n :
             LET r == logged'[Len(logged) + i]
                 written == store'.lines[first + i][1]
             IN /\ written \notin NaValues
                /\ to_datetime(written) = r.timestamp
                /\ r.timestamp \notin ExplicitInstants =>
                      now <= r.timestamp /\ r.timestamp <= now']_vars

\* A call with two records has returned: the first was written with the
\* instant it supplied, the second with the instant of the call, later than
\* the instant of the call before.
C14_Witness ==
    /\ ret.op = "save" /\ ret.out.kind = "True" /\ saves = 1 /\ Len(logged) = 2
    /\ logged[1].timestamp \in ExplicitInstants /\ logged[2].timestamp = MaxNow
    /\ Len(store.lines) >= 2
    /\ store.lines[Len(store.lines) - 1][1] = TsText[logged[1].timestamp]
    /\ store.lines[Len(store.lines)][1] = TsText[MaxNow]

----------------------------------------------------------------------------
(* Vocabulary of the properties about tables *)

\* The activities of table t, and the quantities of its rows of activity a.
ActivitiesIn(t) == {t.rows[i][2] : i \in 1..Len(t.rows)}
QuantitiesOf(t, a) ==
    LET mine == SelectSeq(t.rows, LAMBDA row : row[2] = a)
    IN [i \in 1..Len(mine) |-> mine[i][3]]

\* The period a row falls in.
PeriodOf(row, group_by) ==
    CASE group_by = "day" -> row[5]
      [] group_by = "week" -> WeekOf[DayOf[row[1]]]
      [] group_by = "month" -> MonthOf[DayOf[row[1]]]

InvalidRange == "start_date must be before or equal to end_date"
ActivityNotFound == "Activity not found in data"
InvalidPeriod == "group_by must be 'day', 'week', or 'month'"

----------------------------------------------------------------------------
(* C15  Totals *)

\* C15: get_totals returns one entry per activity of the table, the keys in
\* ascending order, each value the sum of the activity's quantities rounded
\* to the nearest hundredth; for a table without rows it returns an empty
\* result and raises nothing.
C15_Totals ==
    ret.op = "get_totals" =>
        /\ Out.kind = "series"
        /\ Len(Out.rows) = Cardinality(ActivitiesIn(table))
        /\ {Out.rows[k][1] : k \in 1..Len(Out.rows)} = ActivitiesIn(table)
        /\ \A k \in 1..(Len(Out.rows) - 1) :
             Position(LabelOrder, Out.rows[k][1]) < Position(LabelOrder, Out.rows[k + 1][1])
        /\ \A k \in 1..Len(Out.rows) :
             LET total == sum(QuantitiesOf(table, Out.rows[k][1]))
                 value == Out.rows[k][2]
             IN value % 10 = 0 /\ value - total <= 5 /\ total - value <= 5
        /\ table.rows = <<>> => Out.rows = <<>>

\* Two rows of Water of 1.004 each: one entry, 2.01.
C15_Witness ==
    /\ ret.op = "get_totals" /\ Len(table.rows) = 2
    /\ table.rows[1][2] = "Water" /\ table.rows[2][2] = "Water"
    /\ table.rows[1][3] = 1004 /\ table.rows[2][3] = 1004
    /\ Out.rows = << <<"Water", 2010>> >>

----------------------------------------------------------------------------
(* C16  Date range *)

\* C16: for start <= end, get_date_range_activities returns the rows of the
\* table whose date is from start to end, both included, each once and in the
\* order of the table; for start = end, the rows of that date.
C16_DateRange ==
    (ret.op = "get_date_range_activities" /\ ret.args[1] <= ret.args[2]) =>
        /\ Out.kind = "table"
        /\ Out.rows = SelectSeq(table.rows,
                                LAMBDA row : ret.args[1] <= row[5] /\ row[5] <= ret.args[2])
        /\ ret.args[1] = ret.args[2] =>
              Out.rows = SelectSeq(table.rows, LAMBDA row : row[5] = ret.args[1])

\* A range of two days on a table whose first row is of a later day and
\* whose second row is of the last day of the range: the second row alone.
C16_Witness ==
    /\ ret.op = "get_date_range_activities" /\ ret.args[1] < ret.args[2]
    /\ Len(table.rows) = 2
    /\ table.rows[1][5] > ret.args[2] /\ table.rows[2][5] = ret.args[2]
    /\ Out.rows = <<table.rows[2]>>

----------------------------------------------------------------------------
(* C17  Invalid arguments *)

\* C17: get_date_range_activities with start after end raises the range
\* error, whatever the table, an empty one too; get_activity_timeline for an
\* activity of the table and a group_by other than day, week, month raises the
\* period error; neither returns a result.
C17_InvalidArguments ==
    /\ (ret.op = "get_date_range_activities" /\ ret.args[1] > ret.args[2]) =>
          Out = [kind |-> "raise", columns |-> <<>>, rows |-> <<>>, cause |-> <<InvalidRange>>]
    /\ (/\ ret.op = "get_activity_timeline"
        /\ ret.args[1] \in ActivitiesIn(table)
        /\ ret.args[2] \notin {"day", "week", "month"}) =>
          Out = [kind |-> "raise", columns |-> <<>>, rows |-> <<>>, cause |-> <<InvalidPeriod>>]

\* A range given the wrong way round on a table whose two rows are of dates
\* between the two: the call raised.
C17_Witness ==
    /\ ret.op = "get_date_range_activities" /\ ret.args[1] > ret.args[2]
    /\ Len(table.rows) = 2
    /\ \A i \in 1..2 : ret.args[2] <= table.rows[i][5] /\ table.rows[i][5] <= ret.args[1]
    /\ Out.kind = "raise"

----------------------------------------------------------------------------
(* C18  Timeline existence check *)

\* C18: get_activity_timeline for an activity that is the activity of no row
\* (compared letter by letter, case included) raises the not-found error,
\* whatever the table, the empty one too, and whatever group_by, valid or
\* not; it returns no timeline.
C18_ActivityNotFound ==
    (ret.op = "get_activity_timeline" /\ ret.args[1] \notin ActivitiesIn(table)) =>
        Out = [kind |-> "raise", columns |-> <<>>, rows |-> <<>>, cause |-> <<ActivityNotFound>>]

\* A timeline of 'water' with an invalid group_by on a table of 'Water' rows.
C18_Witness ==
    /\ ret.op = "get_activity_timeline" /\ ret.args = <<"water", "year">>
    /\ Len(table.rows) = 2 /\ ActivitiesIn(table) = {"Water"}
    /\ Out.kind = "raise" /\ Out.cause = <<ActivityNotFound>>

----------------------------------------------------------------------------
(* C19  Timeline grouping *)

\* C19: for an activity of the table and group_by day, week or month,
\* get_activity_timeline returns one pair per period in which the activity
\* has a row, in strictly ascending order of period, the quantity of a pair
\* being the sum over the activity's rows of that period (no other row
\* counts); the quantities add up to the activity's total, not rounded.
C19_TimelineGrouping ==
    (/\ ret.op = "get_activity_timeline"
     /\ ret.args[1] \in ActivitiesIn(table)
     /\ ret.args[2] \in {"day", "week", "month"}) =>
        LET mine == SelectSeq(table.rows, LAMBDA row : row[2] = ret.args[1])
            periods == {PeriodOf(mine[i], ret.args[2]) : i \in 1..Len(mine)}
            of(q) == SelectSeq(mine, LAMBDA row : PeriodOf(row, ret.args[2]) = q)
        IN /\ Out.kind = "timeline"
           /\ Len(Out.rows) = Cardinality(periods)
           /\ {Out.rows[k][1] : k \in 1..Len(Out.rows)} = periods
           /\ \A k \in 1..(Len(Out.rows) - 1) : Out.rows[k][1] < Out.rows[k + 1][1]
           /\ \A k \in 1..Len(Out.rows) :
                Out.rows[k][2] = sum([i \in 1..Len(of(Out.rows[k][1])) |-> of(Out.rows[k][1])[i][3]])
           /\ sum([k \in 1..Len(Out.rows) |-> Out.rows[k][2]])
                = sum(QuantitiesOf(table, ret.args[1]))

\* A timeline by week of the Water of a table with a Water row in the fifth
\* week followed by one in the first week: two pairs, the first week first.
C19_Witness ==
    /\ ret.op = "get_activity_timeline" /\ ret.args = <<"Water", "week">>
    /\ Len(table.rows) = 2 /\ ActivitiesIn(table) = {"Water"}
    /\ WeekOf[table.rows[1][5]] = 5 /\ WeekOf[table.rows[2][5]] = 1
    /\ Len(Out.rows) = 2 /\ Out.rows[1][1] = 1 /\ Out.rows[2][1] = 5

----------------------------------------------------------------------------
(* C20  Same-day subset *)

\* C20: a get_today_activities call returns the rows of the table whose date
\* is the date of the clock at the call, each once and no other row, in
\* ascending order of timestamp.
C20_TodayActivities ==
    [][(ret'.op = "get_today_activities" /\ now' = now) =>
        LET today == SelectSeq(table.rows, LAMBDA row : row[5] = DayOf[now])
            out == ret'.out
        IN /\ out.kind = "table"
           /\ Len(out.rows) = Len(today)
           /\ \E p \in Permutations(1..Len(today)) :
                \A i \in 1..Len(today) : out.rows[i] = today[p[i]]
           /\ \A i \in 1..(Len(out.rows) - 1) : out.rows[i][1] <= out.rows[i + 1][1]]_vars

\* After midnight, on a table whose first row is of this afternoon and whose
\* second row is of this morning: the call returns the morning row first.
C20_Witness ==
    /\ ret.op = "get_today_activities" /\ now = 3
    /\ Len(table.rows) = 2
    /\ table.rows[1][1] = 4 /\ table.rows[2][1] = 3
    /\ Out.rows = <<table.rows[2], table.rows[1]>>

----------------------------------------------------------------------------
(* C21  Summary day-span *)

\* The number of date d in the calendar, counted in days from 2023-12-31.
DayNumber == << 1, 2, 3, 8, 29, 32 >>

\* C21: for a table with rows, get_data_summary reports as days_tracked the
\* calendar date of the latest timestamp minus the calendar date of the
\* earliest one, plus 1 (23:00 of one day and 01:00 of the next give 2); for
\* a table without rows it returns the empty dict.
C21_DaySpan ==
    ret.op = "get_data_summary" =>
        IF table.rows = <<>> THEN Out = Returned("dict", <<>>, <<>>)
        ELSE LET stamps == {table.rows[i][1] : i \in 1..Len(table.rows)}
                 earliest == CHOOSE x \in stamps : \A y \in stamps : x <= y
                 latest == CHOOSE x \in stamps : \A y \in stamps : x >= y
             IN Out.rows[3].rows[3] = DayNumber[DayOf[latest]] - DayNumber[DayOf[earliest]] + 1

----------------------------------------------------------------------------
(* C22  Line formatting *)

\* The quantity of an entry to one decimal, 0.0 when it is no number.
OneDecimal(q) ==
    CASE q = PyFloat(250) -> "2.5"
      [] q = PyFloat(125) -> "1.2"
      [] q = PyInt(3) -> "3.0"
      [] q = PyStr("2") -> "2.0"
      [] OTHER -> "0.0"

\* The line of an entry: "- {activity}: {quantity} {unit}", without the blank
\* at the end when there is no unit.
LineOfEntry(e) ==
    LET unit == IF "unit" \in DOMAIN e THEN e.unit ELSE ""
    IN "- " \o e.activity \o ": " \o OneDecimal(e.quantity)
       \o (IF unit = "" THEN "" ELSE " " \o unit)

\* C22: for a list of N >= 1 entries format_activity_summary returns their N
\* lines separated by newline characters; for the empty list it returns
\* "No activities logged yet.".
C22_LineFormatting ==
    ret.op = "format_activity_summary" =>
        /\ Out.kind = "str"
        /\ held = <<>> => Out.rows[1] = "No activities logged yet."
        /\ held # <<>> =>
              Out.rows[1] = join("\n", [i \in 1..Len(held) |-> LineOfEntry(held[i])])

----------------------------------------------------------------------------
(* C23  Idempotent read *)

----------------------------------------------------------------------------
(* C24  Thread-safe append *)

AllDone == \A k \in DOMAIN calls : calls[k].pc = "done"

\* The rows load_data() returned that thread k's records make (they carry
\* its quantity), and the rows thread k wrote, as load_data() is to return them.
RowsFrom(k) ==
    LET mine == SelectSeq(Out.rows, LAMBDA row : row[3] = k)
    IN [i \in 1..Len(mine) |-> <<mine[i][1], mine[i][2], mine[i][3]>>]
RowsBy(k) ==
    [i \in 1..Len(calls[k].rows) |->
        <<to_datetime(calls[k].rows[i][1]), calls[k].rows[i][2], calls[k].rows[i][3]>>]

\* Every call returned True and load_data() returns the rows of all the
\* batches, each once and as it was written.
AllRowsLoaded ==
    /\ \A k \in DOMAIN calls : calls[k].out = ReturnsTrue
    /\ Out.kind = "table"
    /\ \A k \in DOMAIN calls : RowsFrom(k) = RowsBy(k)
    /\ \A i \in 1..Len(Out.rows) : Out.rows[i][3] \in DOMAIN calls

----------------------------------------------------------------------------
(* C25  A failed or empty log leaves the store untouched *)

\* C25: a log_activity call under an API key that is not valid, or whose
\* parse raises, or returns the empty list or no list, leaves the file as it
\* is (it does not create it), so that load_data() returns what it returned
\* before; the call returns False for the empty list and for no list, and
\* raises in the other cases.
C25_FailedLogLeavesStore ==
    [][(/\ ret'.op = "log"
        /\ (~ret'.args[1] \/ ret'.args[2] # "JSON list" \/ ret'.args[3] = 0)) =>
        /\ store' = store
        /\ load_data(store') = load_data(store)
        /\ logged' = logged
        /\ IF ret'.args[1] /\ ret'.args[2] \in {"content empty", "content blank",
                                                "JSON object", "JSON list"}
           THEN ret'.out = Returned("False", <<>>, <<>>)
           ELSE ret'.out.kind = "raise"]_vars

\* A row was logged, then a call whose parse returned the empty list returned
\* False: the file still holds the header and the row.
C25_Witness ==
    /\ ret.op = "log" /\ ret.args = <<TRUE, "JSON list", 0>> /\ ret.out.kind = "False"
    /\ saves = 1 /\ Len(logged) = 1
    /\ Len(store.lines) = 2 /\ LineOf(store, 2, logged[1])

----------------------------------------------------------------------------
(* C26  A status update saves the whole task list back *)

\* The task rows a file holds, line by line, whatever load_tasks makes of
\* them; a created_at that is a timestamp counts as its instant, however it
\* is written.
RowsInFile(f) ==
    [i \in 1..data_rows(f) |->
        LET line == f.lines[i + 1]
        IN << line[1], line[2], line[3],
              IF to_datetime_mixed(line[4]) # NaT THEN TsText[to_datetime_mixed(line[4])]
              ELSE line[4] >>]

\* The same rows, each as often, in whatever order.
SameRows(a, b) ==
    /\ Len(a) = Len(b)
    /\ \E p \in Permutations(1..Len(a)) : \A i \in 1..Len(a) : a[i] = b[p[i]]

\* C26: after an update_task_status(id, s) call that succeeded, alone on the
\* task file, the file holds the rows it held before the call, those that
\* load_tasks leaves out too, with only the status of task id changed; and
\* for an id that no row has, or a status that is not valid, the call raises
\* ValueError and the file is as it was.
C26_UpdateKeepsAllRows ==
    (Len(calls) = 1 /\ calls[1].op = "update_task_status" /\ calls[1].pc = "done") =>
        LET before == RowsInFile(origin)
            id == calls[1].arg
            s == calls[1].new_status
        IN /\ calls[1].out.kind \in {"ABSENT", "raise"}
           /\ calls[1].out.kind = "ABSENT" =>
                 SameRows(RowsInFile(tasks),
                          [i \in 1..Len(before) |->
                              IF before[i][1] = id THEN [before[i] EXCEPT ![3] = s]
                              ELSE before[i]])
           /\ (s \notin valid_statuses \/ id \notin {before[i][1] : i \in 1..Len(before)}) =>
                 calls[1].out.kind = "raise" /\ tasks = origin

----------------------------------------------------------------------------
(* C27  Append never hides earlier data *)

\* The step is a save_to_csv that returned True on a store load_data() can read.
AppendedToReadable ==
    /\ ret'.op = "save" /\ ret'.out = ReturnsTrue
    /\ load_data(store).kind = "table"

\* What load_data() returns after the step is what it returned before it,
\* followed by one row per appended record.
EarlierRowsThenAppended ==
    LET before == load_data(store)
        after == load_data(store')
        n == Len(logged') - Len(logged)
    IN /\ after.kind = "table"
       /\ IsPrefix(before.rows, after.rows)
       /\ Len(after.rows) = Len(before.rows) + n
       /\ \A i \in 1..n :
            LET row == after.rows[Len(before.rows) + i]
                rec == logged'[Len(logged) + i]
            IN /\ row[1] = rec.timestamp
               /\ row[2] = rec.activity
               /\ row[3] = rec.quantity

\* C27: for every store load_data() can read, whatever its header (fewer than
\* five columns, legacy names, any order), a successful save_to_csv followed
\* by load_data() returns every row load_data() returned before the append,
\* with the same values, followed by the appended rows.
C27_AppendKeepsEarlierRows ==
    [][AppendedToReadable => EarlierRowsThenAppended]_vars

----------------------------------------------------------------------------
(* C28  Header under concurrency *)

\* The calls that have run line 400, and those of them that found the store
\* absent or empty and have written since.
Tested == { k \in DOMAIN calls : calls[k].pc \notin {"stamp", "test"} }
WroteHeader == { k \in Tested : calls[k].tested = 0 /\ calls[k].writes > 0 }

\* Every write so far carried the whole text of its call.
WholeWrites ==
    \A k \in DOMAIN calls : calls[k].writes > 0 => calls[k].writes = 1 /\ calls[k].text = <<>>

----------------------------------------------------------------------------
(* C29  Task read-modify-write race *)

\* Call k has returned without raising.
Succeeded(k) == calls[k].pc = "done" /\ calls[k].out = ReturnsNone

\* The effect of call k is in the task file: the task it added, the status
\* it set, the absence of the task it deleted.
EffectInFile(k) ==
    LET rows == RowsInFile(tasks)
    IN IF calls[k].op = "add_task"
       THEN \E i \in 1..Len(rows) : rows[i][2] = calls[k].arg
       ELSE IF calls[k].op = "update_task_status"
       THEN \E i \in 1..Len(rows) : rows[i][1] = calls[k].arg /\ rows[i][3] = calls[k].new_status
       ELSE \A i \in 1..Len(rows) : rows[i][1] # calls[k].arg

\* Call j replaced the file with the list it had loaded from a file that had
\* changed since.
StaleRewrite(j) ==
    /\ calls[j].op \in {"update_task_status", "delete_task"}
    /\ Succeeded(j)
    /\ calls[j].stale

\* C29: two concurrent calls can both succeed and the effect of one of them
\* (an added task, a changed status) be absent from the file when both are
\* done (the state C29_Witness is reached); and an effect is absent only so:
\* whenever all calls are done and the effect of a call that succeeded is not
\* in the file, another call, an update_task_status or a delete_task, loaded
\* the tasks, saw the file change, and then rewrote it whole from what it had
\* loaded.
C29_LostOnlyByStaleRewrite ==
    AllDone =>
        \A k \in DOMAIN calls :
            (Succeeded(k) /\ ~EffectInFile(k)) =>
                \E j \in DOMAIN calls \ {k} : StaleRewrite(j)

\* update_task_status("t1", "completed") loaded the tasks, add_task("Water
\* plants") then ran, and the update rewrote the file: both returned, and the
\* added task is not in the file.
C29_Witness ==
    /\ AllDone /\ Len(calls) = 2
    /\ Succeeded(1) /\ Succeeded(2)
    /\ calls[1].op = "update_task_status" /\ calls[2].op = "add_task"
    /\ EffectInFile(1) /\ ~EffectInFile(2)
    /\ StaleRewrite(1)

----------------------------------------------------------------------------
(* C30  The caller's records are stamped *)

HasTimestamp(r) == "timestamp" \in DOMAIN r /\ r["timestamp"] # NONE

\* The step is a save_to_csv(held) that returned True.
SavedHeld == saves' = saves + 1 /\ ret'.out = ReturnsTrue

\* C30: save_to_csv leaves in each of the caller's records the timestamp it
\* persisted for it (the one supplied, or the instant it assigned), and
\* leaves every other key as it was; so when the same records are passed
\* again, they are unchanged by the later call and persisted with the
\* timestamps of the first append, whatever the clock shows then.
C30_CallerRecordsStamped ==
    [][SavedHeld =>
        /\ Len(held') = Len(held)
        /\ Len(store'.lines) = Len(store.lines) + Len(held) + (IF saves = 0 THEN 1 ELSE 0)
        /\ \A i \in 1..Len(held) :
             LET line == store'.lines[Len(store'.lines) - Len(held) + i]
             IN /\ DOMAIN held'[i] = DOMAIN held[i] \cup {"timestamp"}
                /\ \A key \in DOMAIN held[i] \ {"timestamp"} : held'[i][key] = held[i][key]
                /\ HasTimestamp(held'[i])
                /\ held'[i]["timestamp"] = line[1]
                /\ HasTimestamp(held[i]) => held'[i] = held[i]
                /\ ~HasTimestamp(held[i]) =>
                     \E t \in now..now' : held'[i]["timestamp"] = TsText[t]
                /\ saves > 0 => /\ held'[i] = held[i]
                                /\ line[1] = store.lines[1 + i][1]]_vars

\* A record passed without a timestamp was appended at the first instant and
\* again after the clock had moved on: both lines carry the first instant.
C30_Witness ==
    /\ saves = 2 /\ Len(held) = 1
    /\ ret.op = "save" /\ ret.at = 2
    /\ Len(store.lines) = 3
    /\ held[1]["timestamp"] = TsText[1]
    /\ store.lines[2][1] = TsText[1]
    /\ store.lines[3][1] = TsText[1]

====
